---- MODULE Spec2Model ----
(***************************************************************************)
(* Pharmacokinetic simulators of nephro-tools-v2.                          *)
(*                                                                         *)
(*   pages/05_Overdose_Sim.py  DrugSimulation, run_scenario, pre-roll      *)
(*   pages/06_VCM_Sim.py       VCMSimulation.run_sim, build_events,        *)
(*                             revised-plan block                          *)
(*   pages/08_VCM_CKD.py       VCMSimulationCKD.run_sim_schedule,          *)
(*                             fit_kel_from_measured, revised-plan block   *)
(*                                                                         *)
(* Numbers.  The Python code computes in binary floating point.  The model *)
(* computes in fixed point on integers:                                    *)
(*   volumes        centilitres             (V1 = 1500 is 15 L)            *)
(*   flows Q        centilitres per minute  (Q = 15 is 0.15 L/min)         *)
(*   rate constants 10^-6 per minute        (k_el = 594 is 0.000594/min)   *)
(*   amounts        10^-3 mg                (A1 = 1000000 is 1000 mg)      *)
(*   concentrations 10^-3 mg/L                                             *)
(*   clearances     mL/min                                                 *)
(* Every product and quotient is rounded toward zero at that resolution.   *)
(***************************************************************************)
EXTENDS Integers, Sequences, FiniteSets, TLC

VARIABLES
    pc,        \* position of the running script / call
    inp,       \* the caller-supplied inputs of the run (widgets, arguments)
    sim,       \* the simulation object built by the constructor
    A1,        \* amount in the central compartment
    A2,        \* amount in the peripheral compartment
    i,         \* index of the next grid step
    conc_v1,   \* central concentrations written so far (conc_v1[0..i-1])
    conc_v2,   \* peripheral concentrations written so far (05 only)
    loc,       \* locals of the integrator step taken last
    res        \* results of the other computations (constructor, clearance,
               \* fitter, advisor)

vars == <<pc, inp, sim, A1, A2, i, conc_v1, conc_v2, loc, res>>

-----------------------------------------------------------------------------
(* Fixed-point arithmetic *)

RateScale == 1000 * 1000

Abs(x) == IF x < 0 THEN -x ELSE x

Max(a, b) == IF a >= b THEN a ELSE b

Min(a, b) == IF a <= b THEN a ELSE b

\* The base the multiplier is taken apart in: the largest power of two with
\* Digit(c) * c within a 32-bit integer, up to 256.
RECURSIVE Digit(_)
Digit(c) ==
    IF c >= 16384 * 16384 * 2 THEN 2
    ELSE IF c < 8192 * 1024 THEN 256
    ELSE 2 * Digit(2 * c)

\* <<q, r>> with a * b = q * c + r and 0 <= r < c, for a, b >= 0 and
\* 0 < c < 2^30, without an intermediate value beyond 32 bits.
RECURSIVE MulDivQR(_, _, _)
MulDivQR(a, b, c) ==
    IF b = 0 THEN <<0, 0>>
    ELSE LET B  == Digit(c)
             h  == MulDivQR(a, b \div B, c)
             d  == b % B
             t1 == h[2] * B
             t2 == d * (a % c)
             r3 == (t1 % c) + (t2 % c)
         IN  <<h[1] * B
                   + (d * (a \div c)
                        + ((t1 \div c) + ((t2 \div c) + (r3 \div c)))),
               r3 % c>>

\* a * b / c rounded toward zero, for c # 0; negative when an odd number of
\* a, b and c is below zero.
\* (The arguments are bound to their values before the recursion starts.)
MulDiv(a, b, c) ==
    CHOOSE q \in {IF x[4] THEN -(MulDivQR(x[1], x[2], x[3])[1])
                          ELSE MulDivQR(x[1], x[2], x[3])[1] :
                      x \in {<<Abs(a), Abs(b), Abs(c),
                               (a < 0) = ((b < 0) = (c < 0))>>}} :
        TRUE

\* rate * amount, the rate in 10^-6 units.
MulRate(k, a) == MulDiv(a, k, RateScale)

\* Fixed point of the exponentials: 1.0 is FixOne = 2^28.
FixHalf == 16384

FixOne == FixHalf * FixHalf

\* a * b / FixOne rounded down, for 0 <= a, b < 4 * FixOne, by 14-bit limbs.
MulFixLimbs(a1, a0, b1, b0) ==
    a1 * b1 + (a1 * b0 + a0 * b1 + (a0 * b0) \div FixHalf) \div FixHalf

MulFix(a, b) ==
    CHOOSE p \in {MulFixLimbs(x[1] \div FixHalf, x[1] % FixHalf,
                              x[2] \div FixHalf, x[2] % FixHalf) :
                      x \in {<<a, b>>}} : TRUE

\* x^k for 0 <= x <= 1 and 0 <= k <= 31, by squaring.
PowFixBits(x, k) ==
    LET x2  == MulFix(x, x)
        x4  == MulFix(x2, x2)
        x8  == MulFix(x4, x4)
        x16 == MulFix(x8, x8)
        b1  == IF k % 2 = 1 THEN x ELSE FixOne
        b2  == IF (k \div 2) % 2 = 1 THEN x2 ELSE FixOne
        b4  == IF (k \div 4) % 2 = 1 THEN x4 ELSE FixOne
        b8  == IF (k \div 8) % 2 = 1 THEN x8 ELSE FixOne
        b16 == IF (k \div 16) % 2 = 1 THEN x16 ELSE FixOne
    IN  MulFix(MulFix(MulFix(b1, b2), MulFix(b4, b8)), b16)

\* x^k for 0 <= x <= 1 and k >= 0.
RECURSIVE PowFix(_, _)
PowFix(x, k) ==
    IF k <= 31 THEN CHOOSE p \in {PowFixBits(v, k) : v \in {x}} : TRUE
    ELSE MulFix(PowFix(PowFix(x, 16), k \div 16), PowFix(x, k % 16))

\* 1 - (x/k) * (1 - (x/(k+1)) * (... (1 - x/last))), for 0 <= x <= 1.
RECURSIVE Horner(_, _, _)
Horner(x, k, last) ==
    IF k > last THEN FixOne
    ELSE FixOne - MulFix(Horner(x, k + 1, last), x) \div k

\* The series 1 - x/(1+s) + x^2/((1+s)(2+s)) - ... up to the power 12 - s,
\* for 0 <= x <= 1: exp(-x) for s = 0 and (1 - exp(-x)) / x for s = 1.  The
\* powers up to 5 - s are summed on their own, and the rest as x^(6-s) / 6!
\* times the series from 1 - x/7 on.
Series(x, s) ==
    LET tail == MulFix(PowFix(x, 6 - s), Horner(x, 7, 12)) \div 720
    IN  Horner(x, 1 + s, 5) + (IF s = 0 THEN tail ELSE -tail)

\* np.exp(-x) for 0 <= x <= 1.
ExpNeg(x) == CHOOSE e \in {Series(v, 0) : v \in {x}} : TRUE

\* (1 - np.exp(-x)) / x for 0 <= x <= 1 (1 at x = 0).
OneMinusExpOver(x) == CHOOSE e \in {Series(v, 1) : v \in {x}} : TRUE

\* np.exp(-(2 * a / c)): the exponent twice what it is.
ExpNegRatioDoubled(a, c) ==
    CHOOSE e \in {MulFix(PowFix(v[1], (2 * a) \div c), v[2]) :
                      v \in {<<ExpNeg(FixOne),
                               ExpNeg(MulDiv((2 * a) % c, FixOne, c))>>}} :
        TRUE

\* np.exp(-(a / c)) for integers a >= 0 and c > 0.
ExpNegRatio(a, c) ==
    CHOOSE e \in {MulFix(PowFix(v[1], a \div c), v[2]) :
                      v \in {<<ExpNeg(FixOne),
                               ExpNeg(MulDiv(a % c, FixOne, c))>>}} : TRUE

-----------------------------------------------------------------------------
(* Bounds of the model *)

\* 05: the chart shows 24 * 60 minutes after the start of dialysis; the model
\* shows this many.
ViewMinutes == 3

\* 05: the largest "hours until dialysis" input, in minutes.
MaxHdStart == 2

\* 06: the largest grid length total_hours * 60.
MaxGrid == 6

-----------------------------------------------------------------------------
(* 05_Overdose_Sim.py: DrugSimulation *)

\* k_el from the half-life alone: 0.693 / t_half_min, or 0.
KelOfHalfLifeOnly(total_V, t_half_min, V1) ==
    IF t_half_min > 0 THEN MulDiv(693, 1000, t_half_min) ELSE 0

\* k_el of both constructors: (0.693 * total_V) / (t_half_min * V1), or 0.
KelOf(total_V, t_half_min, V1) ==
    IF t_half_min > 0
    THEN MulDiv(693 * total_V, 1000, t_half_min * V1)
    ELSE 0

\* DrugSimulation.__init__(drug_params, weight)
DrugSimulation(drug_params, weight) ==
    LET V1         == drug_params.V1_per_kg * weight
        V2         == drug_params.V2_per_kg * weight
        Q_inter    == drug_params.Q_inter_L_min
        total_V    == V1 + V2
        t_half_min == drug_params.T_half_hours * 60
    IN  [weight |-> weight, V1 |-> V1, V2 |-> V2, Q |-> Q_inter,
         k12  |-> (Q_inter * RateScale) \div V1,
         k21  |-> (Q_inter * RateScale) \div V2,
         k_el |-> KelOf(total_V, t_half_min, V1)]

\* A1 / V1 and A2 / V2: amount (10^-3 mg) over volume (cL), in 10^-3 mg/L.
Conc(A, V) == MulDiv(A, 100, V)

\* rem_hd with the clearance taken a hundred times too large.
RemovalHundredfold(A, V, cl) == MulDiv(A, cl, V \div 10)

\* (A1 / V1) * clearance: the clearance in mL/min, the result an amount.
Removal(A, V, cl) == MulDiv(A, cl, 10 * V)

NoHd == [given |-> FALSE, start |-> -1, duration |-> 0, cl_val |-> 0]

\* CurrentCl with the window closed at its end (t <= hd_end).
CurrentClClosedEnd(hd_config, t) ==
    LET hd_start == IF hd_config.given THEN hd_config.start ELSE -1
        hd_end   == IF hd_config.given
                    THEN hd_config.start + hd_config.duration ELSE -1
    IN  IF hd_config.given /\ t >= hd_start /\ t <= hd_end
        THEN hd_config.cl_val ELSE 0

\* run_scenario, lines 58-60: the clearance in effect at grid time t.
CurrentCl(hd_config, t) ==
    LET hd_start == IF hd_config.given THEN hd_config.start ELSE -1
        hd_end   == IF hd_config.given
                    THEN hd_config.start + hd_config.duration ELSE -1
    IN  IF hd_config.given /\ t >= hd_start /\ t < hd_end
        THEN hd_config.cl_val ELSE 0

ClampNonNeg(x) == IF x < 0 THEN 0 ELSE x

\* run_scenario, lines 58-74: one pass of the loop body at grid time t.
ScenarioBody(s, a1, a2, t, hd_config) ==
    LET current_cl == CurrentCl(hd_config, t)
        trans_2to1 == MulRate(s.k21, a2)
        trans_1to2 == MulRate(s.k12, a1)
        trans_net  == trans_2to1 - trans_1to2
        elim       == MulRate(s.k_el, a1)
        rem_hd     == Removal(a1, s.V1, current_cl)
        A1_raw     == a1 + trans_net - elim - rem_hd
        A2_raw     == a2 - trans_net
    IN  [t |-> t, A1_in |-> a1, A2_in |-> a2, current_cl |-> current_cl,
         trans |-> trans_net, elim |-> elim, rem_hd |-> rem_hd,
         input_drug |-> 0, A1_raw |-> A1_raw, A2_raw |-> A2_raw,
         A1 |-> ClampNonNeg(A1_raw), A2 |-> ClampNonNeg(A2_raw)]

\* The pre-roll loop of the page, lines 300-306: one pass.
PreRollBody(s, a1_pre, a2_pre, n) ==
    LET trans  == MulRate(s.k21, a2_pre) - MulRate(s.k12, a1_pre)
        elim   == MulRate(s.k_el, a1_pre)
        A1_raw == a1_pre + trans - elim
        A2_raw == a2_pre - trans
    IN  [t |-> n, A1_in |-> a1_pre, A2_in |-> a2_pre, current_cl |-> 0,
         trans |-> trans, elim |-> elim, rem_hd |-> 0,
         input_drug |-> 0, A1_raw |-> A1_raw, A2_raw |-> A2_raw,
         A1 |-> ClampNonNeg(A1_raw), A2 |-> ClampNonNeg(A2_raw)]

\* The pre-roll loop run n times from (a1, a2).
RECURSIVE PreRoll(_, _, _, _)
PreRoll(s, a1, a2, n) ==
    IF n <= 0 THEN <<a1, a2>>
    ELSE LET p == PreRoll(s, a1, a2, n - 1)
             b == PreRollBody(s, p[1], p[2], n - 1)
         IN  <<b.A1, b.A2>>

NoLoc ==
    [t |-> -1, A1_in |-> 0, A2_in |-> 0, current_cl |-> 0, trans |-> 0,
     elim |-> 0, rem_hd |-> 0, input_drug |-> 0, A1_raw |-> 0, A2_raw |-> 0,
     A1 |-> 0, A2 |-> 0]

NoRes == [kind |-> "none"]

\* The inputs of the 05 page the model runs it with.
Params05 ==
    [V1_per_kg : {5, 20}, V2_per_kg : {40}, Q_inter_L_min : {1, 30, 200},
     T_half_hours : {0, 12}]

Inputs05 ==
    [page : {"05"}, weight : {30, 60}, params : Params05,
     overdose_amount : {5000 * 1000},
     hd_start : 0..MaxHdStart, hd_duration : {1, 2, ViewMinutes + 2},
     cl_hd_val : {0, 150}]

\* len(time_steps) of the page: total_time = hd_start + 24 * 60.
TotalTime05 == inp.hd_start + ViewMinutes

HdConfig05 ==
    [given |-> TRUE, start |-> inp.hd_start, duration |-> inp.hd_duration,
     cl_val |-> inp.cl_hd_val]

\* The page up to the pre-roll loop, lines 290-298.
Init05 ==
    /\ inp \in Inputs05
    /\ sim = DrugSimulation(inp.params, inp.weight)
    /\ pc = "preroll"
    /\ A1 = inp.overdose_amount
    /\ A2 = 0
    /\ i = 0
    /\ conc_v1 = <<>>
    /\ conc_v2 = <<>>
    /\ loc = NoLoc
    /\ res = NoRes

\* for _ in range(hd_start): one pass.
PreRollStep ==
    /\ pc = "preroll"
    /\ i < inp.hd_start
    /\ LET b == PreRollBody(sim, A1, A2, i)
       IN  /\ A1' = b.A1
           /\ A2' = b.A2
           /\ loc' = b
    /\ i' = i + 1
    /\ UNCHANGED <<pc, inp, sim, conc_v1, conc_v2, res>>

\* Lines 308-314: A1_init, A2_init, and the call of run_scenario with the
\* dialysis configuration.  res keeps A1_init and A2_init for the second call.
StartScenario ==
    /\ pc = "preroll"
    /\ i = inp.hd_start
    /\ pc' = "run_hd"
    /\ res' = [kind |-> "init", A1_init |-> A1, A2_init |-> A2]
    /\ i' = 0
    /\ conc_v1' = <<>>
    /\ conc_v2' = <<>>
    /\ loc' = NoLoc
    /\ UNCHANGED <<inp, sim, A1, A2>>

\* run_scenario, lines 54-74: one pass of the loop.
ScenarioStep ==
    /\ pc \in {"run_hd", "run_none"}
    /\ i < TotalTime05
    /\ LET b == ScenarioBody(sim, A1, A2, i,
                             IF pc = "run_hd" THEN HdConfig05 ELSE NoHd)
       IN  /\ conc_v1' = Append(conc_v1, Conc(A1, sim.V1))
           /\ conc_v2' = Append(conc_v2, Conc(A2, sim.V2))
           /\ A1' = b.A1
           /\ A2' = b.A2
           /\ loc' = b
    /\ i' = i + 1
    /\ UNCHANGED <<pc, inp, sim, res>>

\* run_scenario returns; line 315 calls it again without dialysis.
ScenarioReturn ==
    /\ pc \in {"run_hd", "run_none"}
    /\ i = TotalTime05
    /\ IF pc = "run_hd"
       THEN /\ pc' = "run_none"
            /\ A1' = res.A1_init
            /\ A2' = res.A2_init
            /\ i' = 0
            /\ conc_v1' = <<>>
            /\ conc_v2' = <<>>
            /\ loc' = NoLoc
       ELSE /\ pc' = "done"
            /\ UNCHANGED <<A1, A2, i, conc_v1, conc_v2, loc>>
    /\ UNCHANGED <<inp, sim, res>>

-----------------------------------------------------------------------------
(* 06_VCM_Sim.py: VCMSimulation *)

\* VCMSimulation.__init__(weight, params)
VCMSimulation(weight, params) ==
    LET V1         == params.V1_per_kg * weight
        V2         == params.V2_per_kg * weight
        Q          == params.Q
        t_half     == params.T_half_off
        total_V    == V1 + V2
        t_half_min == t_half * 60
    IN  [weight |-> weight, V1 |-> V1, V2 |-> V2, Q |-> Q,
         k12  |-> (Q * RateScale) \div V1,
         k21  |-> (Q * RateScale) \div V2,
         k_el |-> KelOf(total_V, t_half_min, V1)]

\* The indices of the numpy slice [start:end] of an array of length n, for
\* start, end >= 0.
Slice(start, end, n) == {t \in 0..(n - 1) : start <= t /\ t < end}

\* run_sim, lines 52-55: the clipped slice an event covers.
EventSlice(ev, n) ==
    LET start == Max(0, ev.start)
        end   == Min(n, ev.start + ev.duration)
    IN  Slice(start, end, n)

\* run_sim, lines 48-61: hd_map after the first k events.
RECURSIVE HdMap(_, _, _)
HdMap(schedule_events, k, n) ==
    IF k = 0 THEN [t \in 0..(n - 1) |-> 0]
    ELSE LET m  == HdMap(schedule_events, k - 1, n)
             ev == schedule_events[k]
         IN  IF ev.type = "hd"
             THEN [t \in 0..(n - 1) |->
                      IF t \in EventSlice(ev, n) THEN ev.val ELSE m[t]]
             ELSE m

\* rate = ev['val'] / ev['duration'], the dose in mg, the rate in 10^-3 mg/min.
DoseRate(ev) == (ev.val * 1000) \div ev.duration

\* infusion_map with the rate assigned to the slice, not added.
RECURSIVE InfusionMapAssigned(_, _, _)
InfusionMapAssigned(schedule_events, k, n) ==
    IF k = 0 THEN [t \in 0..(n - 1) |-> 0]
    ELSE LET m  == InfusionMapAssigned(schedule_events, k - 1, n)
             ev == schedule_events[k]
         IN  IF ev.type = "dose"
             THEN [t \in 0..(n - 1) |->
                      IF t \in EventSlice(ev, n) THEN DoseRate(ev) ELSE m[t]]
             ELSE m

\* run_sim, lines 48-61: infusion_map after the first k events.
RECURSIVE InfusionMap(_, _, _)
InfusionMap(schedule_events, k, n) ==
    IF k = 0 THEN [t \in 0..(n - 1) |-> 0]
    ELSE LET m  == InfusionMap(schedule_events, k - 1, n)
             ev == schedule_events[k]
         IN  IF ev.type = "dose"
             THEN [t \in 0..(n - 1) |->
                      IF t \in EventSlice(ev, n)
                      THEN m[t] + DoseRate(ev) ELSE m[t]]
             ELSE m

NoAdjust == [given |-> FALSE, idx |-> 0, conc |-> 0]

\* The reset of lines 65-75 with A2 left as it is.
StartAdjustKeepingA2(s, a1, a2, t, start_adjust) ==
    IF start_adjust.given /\ t = start_adjust.idx
    THEN <<MulDiv(start_adjust.conc, s.V1, 100), a2>>
    ELSE <<a1, a2>>

\* run_sim, lines 65-75: the state reset to a measured concentration.
StartAdjust(s, a1, a2, t, start_adjust) ==
    IF start_adjust.given /\ t = start_adjust.idx
    THEN LET measured_val == start_adjust.conc
             current_conc == IF s.V1 > 0 THEN Conc(a1, s.V1) ELSE 0
         IN  IF current_conc > 0
             THEN <<MulDiv(measured_val, s.V1, 100),
                    MulDiv(a2, measured_val, current_conc)>>
             ELSE <<MulDiv(measured_val, s.V1, 100), a2>>
    ELSE <<a1, a2>>

\* run_sim, lines 81-88: the update at grid index t, from the amounts after
\* the reset.  Only A1 is clamped.
RunSimBody(s, a1, a2, t, hd, infusion) ==
    LET trans      == MulRate(s.k21, a2) - MulRate(s.k12, a1)
        elim       == MulRate(s.k_el, a1)
        rem_hd     == Removal(a1, s.V1, hd[t])
        input_drug == infusion[t]
        A1_raw     == a1 + trans - elim - rem_hd + input_drug
        A2_raw     == a2 - trans
    IN  [t |-> t, A1_in |-> a1, A2_in |-> a2, current_cl |-> hd[t],
         trans |-> trans, elim |-> elim, rem_hd |-> rem_hd,
         input_drug |-> input_drug, A1_raw |-> A1_raw, A2_raw |-> A2_raw,
         A1 |-> ClampNonNeg(A1_raw), A2 |-> A2_raw]

Hd(start, duration, val) ==
    [type |-> "hd", start |-> start, duration |-> duration, val |-> val]

Dose(start, duration, val) ==
    [type |-> "dose", start |-> start, duration |-> duration, val |-> val]

\* The schedules the model runs run_sim with: a dose after a dialysis session
\* (as build_events lays them out), overlapping doses, a session that ends
\* past the grid, a session during an infusion, a dose that ends past the
\* grid.
Schedules06 ==
    { <<Dose(0, 2, 100)>>,
      <<Hd(1, 2, 120), Dose(3, 1, 50)>>,
      <<Dose(0, 3, 90), Dose(1, 2, 40), Hd(2, MaxGrid, 120)>>,
      <<Dose(0, 1, 100), Hd(1, 2, 0), Hd(4, 1, 120)>>,
      <<Dose(1, 2, 60), Dose(MaxGrid - 2, 3, 90)>> }

Params06 ==
    [V1_per_kg : {10, 25}, V2_per_kg : {30, 65}, Q : {0, 15, 450, 1200},
     T_half_off : {0, 5, 70}]

Inputs06 ==
    [page : {"06"}, weight : {30, 60}, params : Params06,
     schedule_events : Schedules06, total_minutes : {MaxGrid - 1, MaxGrid},
     start_adjust : {NoAdjust, [given |-> TRUE, idx |-> 3, conc |-> 15000],
                     [given |-> TRUE, idx |-> 3, conc |-> 15001]}]

hd_map == HdMap(inp.schedule_events, Len(inp.schedule_events),
                inp.total_minutes)

infusion_map == InfusionMap(inp.schedule_events, Len(inp.schedule_events),
                            inp.total_minutes)

\* The amounts <<A1, A2>> after the passes 0 .. n-1 of run_sim(events), no
\* start_adjust.
RECURSIVE RunSimAmounts(_, _)
RunSimAmounts(s, n) ==
    IF n = 0 THEN <<0, 0>>
    ELSE LET p == RunSimAmounts(s, n - 1)
             b == RunSimBody(s, p[1], p[2], n - 1, hd_map, infusion_map)
         IN  <<b.A1, b.A2>>

\* get_pred_conc(params) of fit_parameter_robust, lines 96-99.
get_pred_conc(params, target_idx) ==
    LET s == VCMSimulation(inp.weight, params)
    IN  IF target_idx < inp.total_minutes
        THEN Conc(RunSimAmounts(s, target_idx)[1], s.V1)
        ELSE 0

\* run_sim up to its main loop, lines 42-61.
Init06 ==
    /\ inp \in Inputs06
    /\ sim = VCMSimulation(inp.weight, inp.params)
    /\ pc = "run_sim"
    /\ A1 = 0
    /\ A2 = 0
    /\ i = 0
    /\ conc_v1 = <<>>
    /\ conc_v2 = <<>>
    /\ loc = NoLoc
    /\ res = NoRes

\* run_sim, lines 63-88: one pass of the main loop.
RunSimStep ==
    /\ pc = "run_sim"
    /\ i < inp.total_minutes
    /\ LET adj == StartAdjust(sim, A1, A2, i, inp.start_adjust)
           b   == RunSimBody(sim, adj[1], adj[2], i, hd_map, infusion_map)
       IN  /\ conc_v1' = Append(conc_v1, Conc(adj[1], sim.V1))
           /\ A1' = b.A1
           /\ A2' = b.A2
           /\ loc' = b
    /\ i' = i + 1
    /\ UNCHANGED <<pc, inp, sim, conc_v2, res>>

\* run_sim, line 90.
RunSimReturn ==
    /\ pc = "run_sim"
    /\ i = inp.total_minutes
    /\ pc' = "done"
    /\ UNCHANGED <<inp, sim, A1, A2, i, conc_v1, conc_v2, loc, res>>

-----------------------------------------------------------------------------
(* The two integrators *)

Init == Init05 \/ Init06

Next ==
    \/ PreRollStep
    \/ StartScenario
    \/ ScenarioStep
    \/ ScenarioReturn
    \/ RunSimStep
    \/ RunSimReturn

Spec == Init /\ [][Next]_vars

-----------------------------------------------------------------------------
(* Claims about the integrators *)

Page05 == pc \in {"preroll", "run_hd", "run_none"}

Page06 == pc = "run_sim"

\* An integrator step of run_scenario or run_sim.
IntegratorStep == pc \in {"run_hd", "run_none", "run_sim"} /\ i' = i + 1

\* C1: after every step of the integrators both compartment amounts are
\* non-negative.  run_sim (06) clamps A1 only.
C1_AmountsNonNegative == A1 >= 0 /\ A2 >= 0

\* No removal clearance is configured for the run.
NoClearance ==
    \/ pc = "run_none"
    \/ pc = "run_hd" /\ inp.cl_hd_val = 0
    \/ /\ pc = "run_sim"
       /\ \A k \in 1..Len(inp.schedule_events) :
             inp.schedule_events[k].type = "hd"
                 => inp.schedule_events[k].val = 0

\* Every dose infusion of the run has completed before grid index t, and the
\* run resets no state.
DosesCompleted(t) ==
    \/ pc \in {"run_hd", "run_none"}
    \/ /\ pc = "run_sim"
       /\ ~inp.start_adjust.given
       /\ \A k \in 1..Len(inp.schedule_events) :
             inp.schedule_events[k].type = "dose"
                 => inp.schedule_events[k].start
                        + inp.schedule_events[k].duration <= t

\* C2: with kel = 0 and no removal clearance, once the last infusion has
\* completed every integrator step leaves A1 + A2 the same.
C2_MassConserved ==
    [][(IntegratorStep /\ sim.k_el = 0 /\ NoClearance /\ DosesCompleted(i))
          => A1' + A2' = A1 + A2]_vars

\* C3: with hd_start > 0, the state at the grid step where removal becomes
\* active is the state hd_start zero-removal steps after (ingested amount, 0),
\* and the concentration reported at t = 0 is ingested amount / V1.
C3_PreRollOnce ==
    (pc = "run_hd" /\ inp.hd_start > 0)
        => /\ i = inp.hd_start
                 => <<A1, A2>> = PreRoll(sim, inp.overdose_amount, 0,
                                         inp.hd_start)
           /\ Len(conc_v1) >= 1
                 => conc_v1[1] = Conc(inp.overdose_amount, sim.V1)

\* The removal window of the run that is open at grid time t, as the set of
\* the clearances of the open windows.
OpenWindows(t) ==
    IF pc = "run_hd"
    THEN IF inp.hd_start <= t /\ t < inp.hd_start + inp.hd_duration
         THEN {inp.cl_hd_val} ELSE {}
    ELSE IF pc = "run_sim"
    THEN {inp.schedule_events[k].val :
             k \in {n \in 1..Len(inp.schedule_events) :
                       /\ inp.schedule_events[n].type = "hd"
                       /\ inp.schedule_events[n].start <= t
                       /\ t < inp.schedule_events[n].start
                                 + inp.schedule_events[n].duration}}
    ELSE {}

\* C5: the removal term of a step at grid time t is 0 when no removal window
\* [start, start + duration) is open at t, and (A1 / V1) * clearance of the
\* open window otherwise.
C5_RemovalOnlyInWindow ==
    (pc \in {"run_hd", "run_none", "run_sim"} /\ loc.t >= 0)
        => IF OpenWindows(loc.t) = {}
           THEN loc.rem_hd = 0
           ELSE \E cl \in OpenWindows(loc.t) :
                   loc.rem_hd = Removal(loc.A1_in, sim.V1, cl)

\* C5 witness: a step inside an open window has removed drug, in a run whose
\* window ends past the grid.
C5_Witness ==
    /\ pc \in {"run_hd", "run_sim"}
    /\ loc.t >= 0
    /\ loc.rem_hd > 0
    /\ OpenWindows(loc.t) # {}
    /\ OpenWindows(i) = {} \/ i >= (IF pc = "run_hd" THEN TotalTime05
                                     ELSE inp.total_minutes)

-----------------------------------------------------------------------------
(* 08_VCM_CKD.py: VCMSimulationCKD and fit_kel_from_measured *)
(*                                                                         *)
(*   kel          1 / (1000 * 2^21) per hour   (KelLow = 2^21 is 0.001/h)  *)
(*   volumes      0.05 L                       (Vd = 840 is 42 L)          *)
(*   doses        mg                                                       *)
(*   times        hours                                                    *)
(*   concentrations  2^-24 mg/L                                            *)

KelUnit == 2048 * 1024

ConcUnit == 4096 * 4096

\* low_k, high_k = 0.001, 0.5
KelLow == KelUnit

KelHigh == 500 * KelUnit

\* range(20)
FitIterations == 20

\* 08: the largest dose list of the model.
MaxDoses == 3

\* 08: the largest dosing interval of the model, in hours.
MaxInterval == 3

\* 08: the hours the grid runs on after the last interval (48 in the code).
TailHours == 2

\* VCMSimulationCKD.__init__(weight, ccr, params): Vd_per_kg in 0.05 L/kg,
\* kel_factor in tenths; t_half in 10^-3 h and cl in 10^-6 L/h.
VCMSimulationCKD(weight, ccr, params) ==
    LET Vd       == params.Vd_per_kg * weight
        kel_base == MulDiv((83 * ccr + 440) * params.kel_factor, KelUnit, 1000)
    IN  [weight |-> weight, ccr |-> ccr, Vd |-> Vd, kel_base |-> kel_base,
         t_half |-> IF kel_base > 0
                    THEN MulDiv(693 * KelUnit, 1000, kel_base)
                    ELSE 999 * 1000,
         cl |-> MulDiv(kel_base, Vd * 50, KelUnit)]

\* kel * h as a fixed-point number, h in hours, kel * h <= 1.
KelTimes(kel, h) == MulDiv(kel, 16 * h, 125)

\* The contribution of a dose without the test of its start time.
DoseValAnyTime(s, d, idx, j, interval, infusion_time) ==
    IF d <= 0 THEN 0 ELSE MulDiv(ConcUnit, d, s.Vd * 20)

\* The contribution of dose d (at index idx of the list, from 0) to the grid hour
\* j, lines 29-45 of run_sim_schedule:
\*   (rate / (Vd * ke)) * (1 - exp(-ke * t)) = d * t / (t_inf * Vd) * phi(kel * t)
\*   c_peak_calc = d / Vd * phi(kel * t_inf),   phi(x) = (1 - exp(-x)) / x,
\*   val = c_peak_calc * exp(-kel)^(t - t_inf)
DoseVal(s, d, idx, j, interval, infusion_time) ==
    LET t_from_start == j - idx * interval
    IN  IF d <= 0 \/ t_from_start < 0 THEN 0
        ELSE IF t_from_start <= infusion_time
        THEN MulDiv(OneMinusExpOver(KelTimes(s.kel_base, t_from_start)),
                    5 * d * t_from_start, 4 * s.Vd * infusion_time)
        ELSE LET t_post      == t_from_start - infusion_time
                 c_peak_calc == OneMinusExpOver(KelTimes(s.kel_base,
                                                         infusion_time))
                 decay       == PowFix(ExpNeg(KelTimes(s.kel_base, 1)), t_post)
             IN  MulDiv(MulFix(c_peak_calc, decay), 5 * d, 4 * s.Vd)

\* conc_curve[j] after the doses 0 .. n-1 of the list.
RECURSIVE ConcAt(_, _, _, _, _, _)
ConcAt(s, dose_list, n, j, interval, infusion_time) ==
    IF n = 0 THEN 0
    ELSE DoseVal(s, dose_list[n], n - 1, j, interval, infusion_time)
         + ConcAt(s, dose_list, n - 1, j, interval, infusion_time)

\* len(time_steps) of run_sim_schedule: num_doses * interval + 48.
GridHours(dose_list, interval) == Len(dose_list) * interval + TailHours

\* run_sim_schedule(dose_list, interval, infusion_time): conc_curve, the
\* Python index j at j + 1.
run_sim_schedule(s, dose_list, interval, infusion_time) ==
    [k \in 1..GridHours(dose_list, interval) |->
        ConcAt(s, dose_list, Len(dose_list), k - 1, interval, infusion_time)]

\* The comparison of the bisection with the bounds the other way round.
FitBoundsReversed(low_k, high_k, mid_k, pred, target_val) ==
    IF pred > target_val THEN <<low_k, mid_k>> ELSE <<mid_k, high_k>>

\* Lines 72-75: the bounds after one pass.
FitBounds(low_k, high_k, mid_k, pred, target_val) ==
    IF pred > target_val THEN <<mid_k, high_k>> ELSE <<low_k, mid_k>>

\* Lines 63-70: mid_k and pred of one pass of fit_kel_from_measured on its
\* arguments (len(c) is the grid length).
FitPredOn(weight, Vd_est, dose_list, interval, infusion_time, low_k, high_k, target_idx) ==
    LET mid_k == (low_k + high_k) \div 2
        s     == [VCMSimulationCKD(weight, 0,
                                   [Vd_per_kg |-> Vd_est, kel_factor |-> 10])
                      EXCEPT !.kel_base = mid_k]
        c     == run_sim_schedule(s, dose_list, interval, infusion_time)
    IN  [mid_k |-> mid_k,
         pred  |-> IF target_idx < GridHours(dose_list, interval)
                   THEN c[target_idx + 1]
                   ELSE 0]

\* Lines 63-70: mid_k and pred of one pass (len(c) is the grid length).
FitPred(low_k, high_k, target_idx) ==
    FitPredOn(inp.weight, inp.Vd_est, inp.dose_list, inp.interval,
              inp.infusion_time, low_k, high_k, target_idx)

\* The dose lists, kel values and observations the fitter is run with.
DoseLists08 ==
    {<<1000>>, <<1000, 500>>, <<0, 750>>, [k \in 1..MaxDoses |-> 500]}

KelTrue08 == {KelLow, 50 * KelUnit + 12345, KelHigh}

\* measured_val in mg/L as the page takes it (0.1 .. 100.0).
MeasuredVal08 == {ConcUnit \div 10, 20 * ConcUnit, 100 * ConcUnit}

InputsFit ==
    [page : {"08"}, weight : {60}, Vd_est : {14}, dose_list : DoseLists08,
     interval : {2, MaxInterval}, infusion_time : {1, 2},
     measured_hour : {1, 3, 5, MaxDoses * MaxInterval + TailHours},
     round_trip : {TRUE}, kel_true : KelTrue08, measured_val : {0}]
    \cup
    [page : {"08"}, weight : {60}, Vd_est : {14}, dose_list : DoseLists08,
     interval : {MaxInterval}, infusion_time : {1},
     measured_hour : {2, 5},
     round_trip : {FALSE}, kel_true : {KelLow}, measured_val : MeasuredVal08]

NoFit ==
    [target_val |-> 0, target_idx |-> 0, low_k |-> 0, high_k |-> 0,
     mid_k |-> 0, pred |-> 0]

InitFit ==
    /\ inp \in InputsFit
    /\ sim = [VCMSimulationCKD(inp.weight, 0,
                               [Vd_per_kg |-> inp.Vd_est, kel_factor |-> 10])
                  EXCEPT !.kel_base = inp.kel_true]
    /\ pc = "simulate"
    /\ A1 = 0
    /\ A2 = 0
    /\ i = 0
    /\ conc_v1 = <<>>
    /\ conc_v2 = <<>>
    /\ loc = NoFit
    /\ res = NoRes

\* The curve of the known kel: run_sim_schedule on the simulator whose
\* kel_base is kel_true.
Simulate ==
    /\ pc = "simulate"
    /\ conc_v1' = run_sim_schedule(sim, inp.dose_list, inp.interval,
                                   inp.infusion_time)
    /\ pc' = "observe"
    /\ UNCHANGED <<inp, sim, A1, A2, i, conc_v2, loc, res>>

\* The call of fit_kel_from_measured, lines 57-60: the observation is the
\* simulated concentration at measured_hour, or the measured value entered.
Observe ==
    /\ pc = "observe"
    /\ LET target_idx == inp.measured_hour
           target_val == IF ~inp.round_trip THEN inp.measured_val
                         ELSE IF target_idx < Len(conc_v1)
                              THEN conc_v1[target_idx + 1]
                              ELSE 0
       IN  loc' = [target_val |-> target_val, target_idx |-> target_idx,
                   low_k |-> KelLow, high_k |-> KelHigh,
                   mid_k |-> 0, pred |-> 0]
    /\ i' = 0
    /\ pc' = "fit"
    /\ UNCHANGED <<inp, sim, A1, A2, conc_v1, conc_v2, res>>

\* for _ in range(20): one pass, lines 63-75.
FitStep ==
    /\ pc = "fit"
    /\ i < FitIterations
    /\ LET p == FitPred(loc.low_k, loc.high_k, loc.target_idx)
           b == FitBounds(loc.low_k, loc.high_k, p.mid_k, p.pred,
                          loc.target_val)
       IN  loc' = [loc EXCEPT !.mid_k = p.mid_k, !.pred = p.pred,
                              !.low_k = b[1], !.high_k = b[2]]
    /\ i' = i + 1
    /\ UNCHANGED <<pc, inp, sim, A1, A2, conc_v1, conc_v2, res>>

\* return (low_k + high_k) / 2: a number, and nothing else.
FitReturn ==
    /\ pc = "fit"
    /\ i = FitIterations
    /\ res' = [kind |-> "fitted", ret |-> (loc.low_k + loc.high_k) \div 2]
    /\ pc' = "fitted"
    /\ UNCHANGED <<inp, sim, A1, A2, i, conc_v1, conc_v2, loc>>

NextFit == Simulate \/ Observe \/ FitStep \/ FitReturn

SpecFit == InitFit /\ [][NextFit]_vars

-----------------------------------------------------------------------------
(* The constructors and calculate_hd_clearance on their own *)

\* Lines 31-39 of 05 and 27-34 of 06, the same in both: the clearance in
\* 10^-3 mL/min, the branch taken, and whether a ZeroDivisionError is raised
\* (by Qb / Qd, or by KoA / (KoA + Qb)).  For Qb, Qd, KoA >= 0.
\*   abs(1 - Qb/Qd) < 0.001  is  1000 * |Qd - Qb| < Qd;
\*   Z = (KoA/Qb) * (1 - Qb/Qd) = KoA * (Qd - Qb) / (Qb * Qd);
\*   Qb * (e^Z - 1) / (e^Z - ratio) is computed with e^-|Z|, as
\*   Qb * (1 - e^-Z) / (1 - ratio * e^-Z) for Z >= 0 and as
\*   Qb * (1 - e^Z) / (ratio - e^Z) for Z < 0.
HdClearance(Qb, Qd, KoA) ==
    IF Qb = 0 THEN [raised |-> FALSE, branch |-> "zero", clearance |-> 0]
    ELSE IF Qd = 0
    THEN [raised |-> TRUE, branch |-> "ratio", clearance |-> 0]
    ELSE IF 1000 * Abs(Qd - Qb) < Qd
    THEN IF KoA + Qb = 0
         THEN [raised |-> TRUE, branch |-> "limit", clearance |-> 0]
         ELSE [raised |-> FALSE, branch |-> "limit",
               clearance |-> MulDiv(Qb * 1000, KoA, KoA + Qb)]
    ELSE LET exp_z == ExpNegRatio(KoA * Abs(Qd - Qb), Qb * Qd)
             num   == FixOne - exp_z
             den   == IF Qb < Qd
                      THEN FixOne - MulDiv(exp_z, Qb, Qd)
                      ELSE MulDiv(FixOne, Qb, Qd) - exp_z
         IN  [raised |-> FALSE, branch |-> "general",
              clearance |-> MulDiv(num, Qb * 1000, den)]

\* DrugSimulation.calculate_hd_clearance(Qb, Qd, KoA, sc): clearance * sc,
\* sc = 1.0, in mL/min; the value is the returned number times 1000.
DrugSimulation_calculate_hd_clearance(Qb, Qd, KoA) ==
    LET c == HdClearance(Qb, Qd, KoA)
    IN  [kind |-> "clearance", raised |-> c.raised, branch |-> c.branch,
         value |-> c.clearance]

\* VCMSimulation.calculate_hd_clearance(Qb, Qd, KoA): clearance / 1000.0, in
\* L/min; the value is the returned number times 1000.
VCMSimulation_calculate_hd_clearance(Qb, Qd, KoA) ==
    LET c == HdClearance(Qb, Qd, KoA)
    IN  [kind |-> "clearance", raised |-> c.raised, branch |-> c.branch,
         value |-> c.clearance \div 1000]

NoSim ==
    [weight |-> 0, V1 |-> 0, V2 |-> 0, Q |-> 0, k12 |-> 0, k21 |-> 0,
     k_el |-> 0]

\* The sidebar values the constructors and calculate_hd_clearance are run
\* with: weight in kg, volumes per kg in cL/kg, Q in cL/min, the half-life in
\* hours, Qb, Qd and KoA in mL/min.
InputsParams ==
    [page : {"params"}, weight : {30, 60}, V1_per_kg : {10, 25},
     V2_per_kg : {65}, Q : {15}, T_half : {-1, 0, 12, 70},
     Qb : {0, 200, 999, 1001, 1999}, Qd : {0, 500, 1000, 2000},
     KoA : {0, 350, 900}]

InitParams ==
    /\ inp \in InputsParams
    /\ sim = NoSim
    /\ pc = "params"
    /\ A1 = 0
    /\ A2 = 0
    /\ i = 0
    /\ conc_v1 = <<>>
    /\ conc_v2 = <<>>
    /\ loc = NoLoc
    /\ res = NoRes

\* 05 line 290: sim = DrugSimulation(current_params, weight)
Construct05 ==
    /\ pc = "params"
    /\ sim' = DrugSimulation([V1_per_kg     |-> inp.V1_per_kg,
                              V2_per_kg     |-> inp.V2_per_kg,
                              Q_inter_L_min |-> inp.Q,
                              T_half_hours  |-> inp.T_half], inp.weight)
    /\ pc' = "constructed05"
    /\ UNCHANGED <<inp, A1, A2, i, conc_v1, conc_v2, loc, res>>

\* 06 line 264: sim_dummy = VCMSimulation(weight, init_params)
Construct06 ==
    /\ pc = "params"
    /\ sim' = VCMSimulation(inp.weight,
                            [V1_per_kg  |-> inp.V1_per_kg,
                             V2_per_kg  |-> inp.V2_per_kg,
                             Q          |-> inp.Q,
                             T_half_off |-> inp.T_half])
    /\ pc' = "constructed06"
    /\ UNCHANGED <<inp, A1, A2, i, conc_v1, conc_v2, loc, res>>

\* 05 line 311: sim.calculate_hd_clearance(qb, qd, koa)
Clearance05 ==
    /\ pc = "constructed05"
    /\ res' = DrugSimulation_calculate_hd_clearance(inp.Qb, inp.Qd, inp.KoA)
    /\ pc' = "cleared05"
    /\ UNCHANGED <<inp, sim, A1, A2, i, conc_v1, conc_v2, loc>>

\* 06 line 265: cl_hd_val = sim_dummy.calculate_hd_clearance(qb, qd, koa)
Clearance06 ==
    /\ pc = "constructed06"
    /\ res' = VCMSimulation_calculate_hd_clearance(inp.Qb, inp.Qd, inp.KoA)
    /\ pc' = "cleared06"
    /\ UNCHANGED <<inp, sim, A1, A2, i, conc_v1, conc_v2, loc>>

NextParams == Construct05 \/ Construct06 \/ Clearance05 \/ Clearance06

SpecParams == InitParams /\ [][NextParams]_vars

\* The half-lives of the search interval [5, 1000] h the model compares.
FitHalfLives06 == {5, 70, 1000}

\* C9 (two-compartment integrator): for a fixed schedule and fixed other
\* parameters the concentration get_pred_conc predicts at the observation
\* index does not decrease when the half-life grows within [5, 1000] h.  The
\* state is a run of run_sim without start_adjust; conc_v1 holds its
\* concentrations up to the index i - 1.
C9_PredMonotoneInHalfLife ==
    (/\ pc = "run_sim"
     /\ ~inp.start_adjust.given
     /\ inp.params.T_half_off \in FitHalfLives06
     /\ i >= 1) =>
        \A t_half \in FitHalfLives06 :
            LET pred == get_pred_conc([inp.params EXCEPT !.T_half_off = t_half],
                                      i - 1)
            IN  /\ t_half >= inp.params.T_half_off => pred >= conc_v1[i]
                /\ t_half <= inp.params.T_half_off => pred <= conc_v1[i]

-----------------------------------------------------------------------------
(* Claims about the constructors and the dialyser clearance *)

Constructed == pc \in {"constructed05", "constructed06"}

Cleared == pc \in {"cleared05", "cleared06"}

\* The example of the specification: 60 kg, V1 = 15 L, V2 = 39 L, 70 h.
KelExample ==
    /\ inp.weight = 60
    /\ inp.V1_per_kg = 25
    /\ inp.V2_per_kg = 65
    /\ inp.T_half = 70

\* C4, as stated: the constructors derive k_el as ln(2) / half-life from the
\* half-life alone (0.693 / t_half_min, in 10^-6 per minute), which is
\* 0.000165 per minute for the example.
C4_KelFromHalfLifeAlone ==
    (Constructed /\ inp.T_half > 0) =>
        /\ sim.k_el = 693000 \div (inp.T_half * 60)
        /\ KelExample => sim.k_el = 165

\* C4, amended: the constructors derive k_el from the half-life and both
\* volumes, k_el = 0.693 * (V1 + V2) / (t_half_min * V1), and k_el = 0 for a
\* half-life that is not positive; for the example k_el is 0.000594 per
\* minute.  (k_el * t_half_min * V1 brackets 0.693 * (V1 + V2) at the
\* resolution of k_el.)
C4_KelFromHalfLifeAndVolumes ==
    Constructed =>
        LET V1         == inp.V1_per_kg * inp.weight
            V2         == inp.V2_per_kg * inp.weight
            t_half_min == inp.T_half * 60
        IN  /\ sim.V1 = V1 /\ sim.V2 = V2
            /\ inp.T_half <= 0 => sim.k_el = 0
            /\ inp.T_half > 0 =>
                 /\ MulDiv(sim.k_el, t_half_min * V1, 1000) <= 693 * (V1 + V2)
                 /\ 693 * (V1 + V2)
                        <= MulDiv(sim.k_el + 1, t_half_min * V1, 1000)
            /\ KelExample => sim.k_el = 594

\* C4: a constructor has run on the example and k_el is 0.000594 per minute.
C4_Witness ==
    /\ pc = "constructed06"
    /\ KelExample
    /\ sim.V1 = 1500
    /\ sim.V2 = 3900
    /\ sim.k_el = 594

\* The value calculate_hd_clearance returns on the page the state is on, as
\* the limiting form Qb * KoA / (KoA + Qb) gives it.
IsLimitingForm ==
    LET scale == IF pc = "cleared05" THEN 1 ELSE 1000
        v     == res.value * scale
    IN  /\ v * (inp.KoA + inp.Qb) <= inp.Qb * inp.KoA * 1000
        /\ inp.Qb * inp.KoA * 1000 < (v + scale) * (inp.KoA + inp.Qb)

\* Qb is approximately Qd: |1 - Qb/Qd| < 0.001.
NearlyEqualFlows == inp.Qd > 0 /\ 1000 * Abs(inp.Qd - inp.Qb) < inp.Qd

\* C6: for every Qb >= 0, Qd >= 0 and KoA >= 0 calculate_hd_clearance returns
\* without raising, returns 0 when Qb = 0, and returns the limiting form
\* Qb * KoA / (KoA + Qb) when Qb is approximately Qd.
C6_ClearanceNeverRaises ==
    Cleared =>
        /\ ~res.raised
        /\ inp.Qb = 0 => res.value = 0
        /\ (inp.Qb > 0 /\ NearlyEqualFlows) => IsLimitingForm

-----------------------------------------------------------------------------
(* 06_VCM_Sim.py: the schedule and the revised plan *)

DOSE_SLOTS == 6

\* pattern_indices of the dialysis pattern.
PatternIndices(hd_pattern) ==
    IF hd_pattern = "MWF" THEN <<0, 2, 4>> ELSE <<1, 3, 5>>

\* Lines 229-236 with a week of six days in the wrap-around.
NextHdDaySixDayWeek(pattern_indices, current_day_idx) ==
    LET next_day_candidates ==
            {d \in {pattern_indices[k] : k \in 1..Len(pattern_indices)} :
                d > current_day_idx}
    IN  IF next_day_candidates # {}
        THEN LET next_day_idx ==
                     CHOOSE d \in next_day_candidates :
                         \A e \in next_day_candidates : d <= e
             IN  <<next_day_idx - current_day_idx, next_day_idx>>
        ELSE <<(pattern_indices[1] + 6) - current_day_idx, pattern_indices[1]>>

\* Lines 229-236: <<gap, next_day_idx>> from current_day_idx.
NextHdDay(pattern_indices, current_day_idx) ==
    LET next_day_candidates ==
            {d \in {pattern_indices[k] : k \in 1..Len(pattern_indices)} :
                d > current_day_idx}
    IN  IF next_day_candidates # {}
        THEN LET next_day_idx ==
                     CHOOSE d \in next_day_candidates :
                         \A e \in next_day_candidates : d <= e
             IN  <<next_day_idx - current_day_idx, next_day_idx>>
        ELSE <<(pattern_indices[1] + 7) - current_day_idx, pattern_indices[1]>>

\* <<cum_days, current_day_idx>> after n passes of the loop at lines 224-238.
RECURSIVE HdDays(_, _, _)
HdDays(pattern_indices, start_day_idx, n) ==
    IF n = 0 THEN <<0, start_day_idx>>
    ELSE LET p == HdDays(pattern_indices, start_day_idx, n - 1)
             g == NextHdDay(pattern_indices, p[2])
         IN  <<p[1] + g[1], g[2]>>

\* hd_days_offset
HdDaysOffset(pattern_indices, start_day_idx) ==
    [k \in 1..DOSE_SLOTS |-> HdDays(pattern_indices, start_day_idx, k - 1)[1]]

\* hd_days_offset_next
HdDaysOffsetNext(pattern_indices, start_day_idx) ==
    HdDays(pattern_indices, start_day_idx, DOSE_SLOTS)[1]

\* (t_start + day_offset * 24) * 60 with t_start = 9
HdStart(day_offset) == (9 + day_offset * 24) * 60

\* build_events(doses_list, offsets): evs after the offsets 1 .. n; the
\* infusion lasts infusion_duration = 60 minutes.
RECURSIVE BuildEvs(_, _, _, _, _)
BuildEvs(doses_list, offsets, n, hd_duration_min, cl_hd_val) ==
    IF n = 0 THEN <<>>
    ELSE LET evs  == BuildEvs(doses_list, offsets, n - 1, hd_duration_min,
                              cl_hd_val)
             t_hd == HdStart(offsets[n])
             hd   == <<Hd(t_hd, hd_duration_min, cl_hd_val)>>
         IN  IF n <= Len(doses_list) /\ doses_list[n] > 0
             THEN evs \o hd \o <<Dose(t_hd + hd_duration_min, 60,
                                     doses_list[n])>>
             ELSE evs \o hd

\* build_events(doses_list, offsets): evs and hd_start_times.
build_events(doses_list, offsets, hd_duration_min, cl_hd_val) ==
    [evs |-> BuildEvs(doses_list, offsets, Len(offsets), hd_duration_min,
                      cl_hd_val),
     hd_start_times |-> [k \in 1..Len(offsets) |-> HdStart(offsets[k])]]

\* Lines 334-335 and 369-371: modified_doses, a copy of current_doses with
\* the slots from start_dose_idx on set to modified_dose.
ModifiedDoses06(current_doses, selected_idx, modified_dose) ==
    LET start_dose_idx == IF selected_idx > 5 THEN 5 ELSE selected_idx
    IN  [k \in 1..DOSE_SLOTS |->
            IF k - 1 >= start_dose_idx THEN modified_dose
            ELSE current_doses[k]]

\* The sidebar and TDM inputs of the 06 page.
InputsAdvisor06 ==
    [page : {"06"},
     hd_pattern : {"MWF", "TTS"}, start_option : 1..3,
     hd_duration_min : {180, 270}, cl_hd_val : {120},
     current_doses : {<<1000, 500, 500, 500, 500, 500>>,
                      <<1200, 600, 0, 600, 600, 650>>},
     selected_idx : 0..DOSE_SLOTS,
     measured_val : {0, 12}, modified_dose : {750}]

NoPlan ==
    [current_doses |-> <<>>, events_current |-> <<>>, hd_times |-> <<>>,
     hd_days_offset |-> <<>>]

InitAdvisor06 ==
    /\ inp \in InputsAdvisor06
    /\ pc = "schedule06"
    /\ sim = NoSim
    /\ A1 = 0
    /\ A2 = 0
    /\ i = 0
    /\ conc_v1 = <<>>
    /\ conc_v2 = <<>>
    /\ loc = NoPlan
    /\ res = NoRes

\* Lines 282-285: current_doses, events_current, hd_times.
BuildEvents06 ==
    /\ pc = "schedule06"
    /\ LET pattern_indices == PatternIndices(inp.hd_pattern)
           start_day_idx   == pattern_indices[inp.start_option]
           offsets         == HdDaysOffset(pattern_indices, start_day_idx)
           built           == build_events(inp.current_doses, offsets,
                                           inp.hd_duration_min, inp.cl_hd_val)
           t_next_hd       == HdStart(HdDaysOffsetNext(pattern_indices,
                                                       start_day_idx))
       IN  loc' = [current_doses  |-> inp.current_doses,
                   events_current |-> built.evs,
                   hd_times       |-> Append(built.hd_start_times, t_next_hd),
                   hd_days_offset |-> offsets]
    /\ pc' = "tdm06"
    /\ UNCHANGED <<inp, sim, A1, A2, i, conc_v1, conc_v2, res>>

\* Lines 318-374 with measured_val > 0: the revised plan.  modified_dose is
\* the number the user leaves in the input (suggest_dose by default).
Revise06 ==
    /\ pc = "tdm06"
    /\ inp.measured_val > 0
    /\ LET modified_doses == ModifiedDoses06(loc.current_doses,
                                             inp.selected_idx,
                                             inp.modified_dose)
           built == build_events(modified_doses, loc.hd_days_offset,
                                 inp.hd_duration_min, inp.cl_hd_val)
       IN  res' = [kind            |-> "revised",
                   target_min      |-> loc.hd_times[inp.selected_idx + 1],
                   revised_dose    |-> inp.modified_dose,
                   modified_doses  |-> modified_doses,
                   events_modified |-> built.evs]
    /\ pc' = "revised06"
    /\ UNCHANGED <<inp, sim, A1, A2, i, conc_v1, conc_v2, loc>>

\* Line 318 with measured_val <= 0: no revised plan.
NoRevision06 ==
    /\ pc = "tdm06"
    /\ inp.measured_val <= 0
    /\ pc' = "norevision06"
    /\ UNCHANGED <<inp, sim, A1, A2, i, conc_v1, conc_v2, loc, res>>

-----------------------------------------------------------------------------
(* 08_VCM_CKD.py: the revised plan *)

NUM_SLOTS == 14

\* round(n / d) of Python: to the nearest integer, a tie to the even one.
RoundHalfEven(n, d) ==
    LET q == n \div d
        r == n % d
    IN  IF 2 * r > d \/ (2 * r = d /\ q % 2 = 1) THEN q + 1 ELSE q

\* Lines 302-303 and 311-312 with the AUC24 target: new_dose from the
\* clearance cl (10^-6 L/h), target_auc and the interval (h).
NewDose08(cl, target_auc, interval) ==
    RoundHalfEven(MulDiv(cl, target_auc * interval, 2400 * 1000), 1000) * 100

\* Lines 318-326: mod_dose_list, a copy of current_dose_list with the
\* slots from start_mod_idx on set to new_dose.
ModDoseList08(current_dose_list, has_measured, target_dose_num, new_dose) ==
    LET start_mod_idx ==
            IF has_measured
            THEN IF target_dose_num >= NUM_SLOTS THEN NUM_SLOTS - 1
                 ELSE target_dose_num
            ELSE 1
    IN  [k \in 1..NUM_SLOTS |->
            IF k - 1 >= start_mod_idx THEN new_dose ELSE current_dose_list[k]]

\* Lines 253-259: sampling_time, in hours.
SamplingTime08(target_dose_num, interval, timing_mode, infusion_hr, hours_after) ==
    LET t_start_dose == (target_dose_num - 1) * interval
    IN  IF timing_mode = "trough" THEN t_start_dose
        ELSE t_start_dose + infusion_hr + hours_after

\* The inputs of the 08 page; fitted_kel is the kel the fitter returned when
\* there is a measurement.
InputsAdvisor08 ==
    {r \in [page : {"08"}, weight : {60}, ccr : {50}, Vd_per_kg : {14},
            kel_factor : {10}, interval : {12, 24}, infusion_hr : {1, 2},
            current_dose_list :
                {[k \in 1..NUM_SLOTS |-> IF k = 1 THEN 1500 ELSE 1000]},
            has_measured : BOOLEAN, timing_mode : {"trough", "post"},
            target_dose_num : 2..NUM_SLOTS, hours_after : {0, 3, 12, 24},
            measured_val : {0, 20}, fitted_kel : {20 * KelUnit, 51 * KelUnit},
            target_auc : {450}] :
        /\ r.hours_after <= r.interval
        /\ r.timing_mode = "trough" => r.hours_after = 0
        /\ ~r.has_measured =>
               /\ r.timing_mode = "trough"
               /\ r.target_dose_num = 2
               /\ r.measured_val = 0
               /\ r.fitted_kel = 20 * KelUnit}

InitAdvisor08 ==
    /\ inp \in InputsAdvisor08
    /\ pc = "tdm08"
    /\ sim = VCMSimulationCKD(inp.weight, inp.ccr,
                              [Vd_per_kg  |-> inp.Vd_per_kg,
                               kel_factor |-> inp.kel_factor])
    /\ A1 = 0
    /\ A2 = 0
    /\ i = 0
    /\ conc_v1 = <<>>
    /\ conc_v2 = <<>>
    /\ loc = [NoPlan EXCEPT !.current_doses = inp.current_dose_list]
    /\ res = NoRes

\* used_sim_obj.cl, lines 276-296: of the fitted simulator when there is a
\* measurement above 0, of the initial one otherwise.
UsedCl08 ==
    IF inp.has_measured /\ inp.measured_val > 0
    THEN MulDiv(inp.fitted_kel, sim.Vd * 50, KelUnit)
    ELSE sim.cl

\* Lines 299-330 with the AUC24 target and new_dose # last_dose.
Revise08 ==
    /\ pc = "tdm08"
    /\ (inp.has_measured /\ inp.measured_val > 0) \/ ~inp.has_measured
    /\ LET new_dose  == NewDose08(UsedCl08, inp.target_auc, inp.interval)
           last_dose == loc.current_doses[NUM_SLOTS]
       IN  /\ new_dose # last_dose
           /\ res' = [kind           |-> "revised",
                      target_min     |-> SamplingTime08(inp.target_dose_num,
                                             inp.interval, inp.timing_mode,
                                             inp.infusion_hr, inp.hours_after),
                      revised_dose   |-> new_dose,
                      modified_doses |-> ModDoseList08(loc.current_doses,
                                             inp.has_measured,
                                             inp.target_dose_num, new_dose)]
    /\ pc' = "revised08"
    /\ UNCHANGED <<inp, sim, A1, A2, i, conc_v1, conc_v2, loc>>

\* Lines 299-332 otherwise: no proposal (a measurement of 0), or the current
\* dose already is the proposed one.
NoRevision08 ==
    /\ pc = "tdm08"
    /\ \/ inp.has_measured /\ inp.measured_val <= 0
       \/ NewDose08(UsedCl08, inp.target_auc, inp.interval)
              = loc.current_doses[NUM_SLOTS]
    /\ pc' = "norevision08"
    /\ UNCHANGED <<inp, sim, A1, A2, i, conc_v1, conc_v2, loc, res>>

InitAdvisor == InitAdvisor06 \/ InitAdvisor08

NextAdvisor ==
    \/ BuildEvents06
    \/ Revise06
    \/ NoRevision06
    \/ Revise08
    \/ NoRevision08

SpecAdvisor == InitAdvisor /\ [][NextAdvisor]_vars

-----------------------------------------------------------------------------
(* 06_VCM_Sim.py: the suggested dose *)
(*   doses of the suggestion  10^-3 mg                                     *)
(*   concentrations           10^-3 mg/L                                   *)

\* len(sim_conc_fitted): total_hours * 60 with total_hours =
\* (hd_days_offset_next + 2) * 24.
CurveLen06(hd_days_offset_next) == (hd_days_offset_next + 2) * 24 * 60

\* Lines 341-343: next_idx, target_sim_idx and pred_next_trough.  The curve
\* is given by its samples at the minutes hd_times (at_sessions[k] is
\* sim_conc_fitted[hd_times[k]]).
PredNextTrough(selected_idx, hd_times, at_sessions, curve_len) ==
    LET next_idx       == Min(selected_idx + 1, 6)
        target_sim_idx == hd_times[next_idx + 1]
    IN  [target_sim_idx   |-> target_sim_idx,
         pred_next_trough |-> IF target_sim_idx < curve_len
                              THEN at_sessions[next_idx + 1] ELSE 0]

\* The scaling of line 349 with the ratio the other way round.
ScaleDoseInverted(dose, target, trough) == MulDiv(dose, trough, target)

\* ratio = target_val / pred_next_trough; current_planned_dose * ratio
ScaleDose(dose, target, trough) == MulDiv(dose, target, trough)

\* round(x / granule) * granule, x in 10^-3 mg and granule in mg; the result
\* in mg.
RoundToGranule(x, granule) == RoundHalfEven(x, granule * 1000) * granule

\* Lines 345-352: suggest_dose before and after line 350.
SuggestDose06(current_planned_dose, target_val, pred_next_trough) ==
    IF pred_next_trough > 0
    THEN LET unrounded == ScaleDose(current_planned_dose * 1000, target_val,
                                    pred_next_trough)
         IN  [unrounded    |-> unrounded,
              suggest_dose |-> RoundToGranule(unrounded, 50) * 1000]
    ELSE [unrounded    |-> current_planned_dose * 1000,
          suggest_dose |-> current_planned_dose * 1000]

\* len(c) of the curve get_pred_conc reads: run_sim(events) at line 98 runs
\* with the default total_hours = 336.
FitCurveLen06 == 336 * 60

\* get_pred_conc, line 99: c[target_idx] if target_idx < len(c) else 0.
PredSource(target_idx, curve_len) ==
    IF target_idx < curve_len THEN "curve" ELSE "fallback"

\* The inputs of the 06 page for the suggestion; sim_conc_fitted is given by
\* its samples at the seven minutes of hd_times.
InputsSuggest06 ==
    [page : {"06"},
     hd_pattern : {"MWF", "TTS"}, start_option : 1..3,
     hd_duration_min : {180}, cl_hd_val : {120},
     current_doses : {<<1000, 500, 500, 500, 500, 500>>,
                      <<1200, 600, 0, 600, 625, 1025>>},
     selected_idx : 0..DOSE_SLOTS,
     measured_val : {0, 12000},
     target_val : {10000, 15000},
     sim_conc_fitted : {<<12000, 10000, 9000, 11000, 8000, 7000, 13000>>,
                        <<12000, 21000, 0, 15000, 407, 0, 0>>}]

InitSuggest06 ==
    /\ inp \in InputsSuggest06
    /\ pc = "schedule06"
    /\ sim = NoSim
    /\ A1 = 0
    /\ A2 = 0
    /\ i = 0
    /\ conc_v1 = <<>>
    /\ conc_v2 = <<>>
    /\ loc = NoPlan
    /\ res = NoRes

\* Lines 318-352 with measured_val > 0: the fit of line 324 (what its
\* get_pred_conc compares the measured value with) and the suggestion.
\* start_adjust makes
\* the sample of sim_conc_fitted at the observation the measured value.
Suggest06 ==
    /\ pc = "tdm06"
    /\ inp.measured_val > 0
    /\ LET start_dose_idx == IF inp.selected_idx > 5 THEN 5
                             ELSE inp.selected_idx
           pred == PredNextTrough(inp.selected_idx, loc.hd_times,
                       [inp.sim_conc_fitted EXCEPT
                            ![inp.selected_idx + 1] = inp.measured_val],
                       CurveLen06(HdDaysOffsetNext(
                           PatternIndices(inp.hd_pattern),
                           PatternIndices(inp.hd_pattern)[inp.start_option])))
           current_planned_dose ==
               loc.current_doses[Min(start_dose_idx, 5) + 1]
           sug == SuggestDose06(current_planned_dose, inp.target_val,
                                pred.pred_next_trough)
       IN  res' = [kind         |-> "suggested",
                   fit_pred     |-> PredSource(
                                        loc.hd_times[inp.selected_idx + 1],
                                        FitCurveLen06),
                   observed_at  |-> loc.hd_times[inp.selected_idx + 1],
                   trough_at    |-> pred.target_sim_idx,
                   trough       |-> pred.pred_next_trough,
                   target       |-> inp.target_val,
                   current_dose |-> current_planned_dose * 1000,
                   unrounded    |-> sug.unrounded,
                   suggestion   |-> sug.suggest_dose,
                   granule      |-> 50]
    /\ pc' = "suggested06"
    /\ UNCHANGED <<inp, sim, A1, A2, i, conc_v1, conc_v2, loc>>

\* Line 318 with measured_val <= 0: no suggestion.
NoSuggest06 ==
    /\ pc = "tdm06"
    /\ inp.measured_val <= 0
    /\ pc' = "nosuggestion06"
    /\ UNCHANGED <<inp, sim, A1, A2, i, conc_v1, conc_v2, loc, res>>

-----------------------------------------------------------------------------
(* 08_VCM_CKD.py: the proposed dose *)
(*   daily doses, suggest_raw   10^-3 mg                                   *)
(*   AUC24                      10^-3 mg h/L                               *)
(*   troughs of the scaling     2^-16 mg/L                                 *)

TroughUnit == 256 * 256

\* calc_auc24_steady(daily_dose)
calc_auc24_steady(s, daily_dose) ==
    IF s.cl = 0 THEN 0 ELSE MulDiv(daily_dose, 1000 * 1000, s.cl)

\* Lines 281-283 without line 283.
FitObjectStaleCl(s, fitted_kel) == [s EXCEPT !.kel_base = fitted_kel]

\* Lines 281-283: sim_fit_obj.
FitObject(s, fitted_kel) ==
    [s EXCEPT !.kel_base = fitted_kel,
              !.cl = MulDiv(fitted_kel, s.Vd * 50, KelUnit)]

\* x * (24 / interval)
TimesPerDay(x, interval) == MulDiv(x, 24, interval)

\* Line 312 without the division.
SuggestRawDaily(req_daily_dose, interval) == req_daily_dose

\* Line 312: suggest_raw = req_daily_dose / (24 / interval)
SuggestRaw(req_daily_dose, interval) == MulDiv(req_daily_dose, interval, 24)

\* Lines 305-310: req_daily_dose of the trough target, the troughs in
\* TroughUnit.
ReqDailyDoseTrough(daily_dose_equiv, target_trough, curr_trough) ==
    IF curr_trough > 0
    THEN ScaleDose(daily_dose_equiv, target_trough, curr_trough)
    ELSE daily_dose_equiv

\* The sum of the second components of a set of pairs.
RECURSIVE SumVals(_)
SumVals(S) ==
    IF S = {} THEN 0
    ELSE LET x == CHOOSE y \in S : TRUE
         IN  x[2] + SumVals(S \ {x})

\* The last sample of run_sim_schedule(dose_list, interval, infusion_time),
\* conc_curve[-1], in TroughUnit: the sum of the contributions of the doses.
LastSample(s, dose_list, interval, infusion_time) ==
    SumVals({<<k, DoseVal(s, dose_list[k], k - 1,
                          GridHours(dose_list, interval) - 1, interval,
                          infusion_time) \div (ConcUnit \div TroughUnit)>> :
                 k \in 1..Len(dose_list)})

\* The dose lists of the page: NUM_SLOTS slots.
DoseLists14 ==
    {[k \in 1..NUM_SLOTS |-> IF k = 1 THEN 1500 ELSE 1000],
     [k \in 1..NUM_SLOTS |-> IF k < 4 THEN 1000 ELSE 525],
     [k \in 1..NUM_SLOTS |-> 0]}

\* The inputs of the 08 page for the proposal; target_trough in halves of
\* mg/L, fitted_kel the kel the fitter returns when there is a measurement.
InputsPropose08 ==
    {r \in [page : {"08"}, weight : {60}, ccr : {10, 50}, Vd_per_kg : {14},
            kel_factor : {10}, interval : {12, 24, 168}, infusion_hr : {1, 2},
            current_dose_list : DoseLists14,
            has_measured : BOOLEAN, measured_val : {0, 20},
            fitted_kel : {KelLow, 20 * KelUnit + 777, KelHigh},
            target_mode : {"auc", "trough"},
            target_auc : {400, 450, 600}, target_trough : {20, 30, 35}] :
        /\ ~r.has_measured => r.measured_val = 0
        /\ ~(r.has_measured /\ r.measured_val > 0) => r.fitted_kel = KelLow
        /\ r.target_mode = "auc" => r.target_trough = 30
        /\ r.target_mode = "trough" => r.target_auc = 450
        /\ r.interval = 168 =>
               r.infusion_hr = 1 /\ r.ccr = 50 /\ r.target_mode = "auc"
        /\ (r.target_mode = "trough" /\ r.fitted_kel = KelHigh) =>
               r.interval = 12}

NoProposal ==
    [current_dose_list |-> <<>>, daily_dose_equiv |-> 0, auc_current |-> 0,
     conc_base_last |-> 0, conc_base_kel |-> 0,
     sim_fit_obj |-> NoSim, sim_fitted_last |-> -1, sim_fitted_kel |-> 0,
     used_sim_obj |-> NoSim, cl_reads |-> <<>>]

InitPropose08 ==
    /\ inp \in InputsPropose08
    /\ pc = "baseline08"
    /\ sim = VCMSimulationCKD(inp.weight, inp.ccr,
                              [Vd_per_kg  |-> inp.Vd_per_kg,
                               kel_factor |-> inp.kel_factor])
    /\ A1 = 0
    /\ A2 = 0
    /\ i = 0
    /\ conc_v1 = <<>>
    /\ conc_v2 = <<>>
    /\ loc = NoProposal
    /\ res = NoRes

\* Lines 227-232: the baseline curve and auc24_initial.
Baseline08 ==
    /\ pc = "baseline08"
    /\ LET last_dose        == inp.current_dose_list[NUM_SLOTS]
           daily_dose_equiv == TimesPerDay(last_dose * 1000, inp.interval)
       IN  loc' = [loc EXCEPT
                     !.current_dose_list = inp.current_dose_list,
                     !.conc_base_last = LastSample(sim, inp.current_dose_list,
                                            inp.interval, inp.infusion_hr),
                     !.conc_base_kel = sim.kel_base,
                     !.daily_dose_equiv = daily_dose_equiv,
                     !.auc_current = calc_auc24_steady(sim, daily_dose_equiv),
                     !.cl_reads = <<[obj |-> "sim", at |-> 232,
                                     read |-> sim]>>]
    /\ pc' = "analyse08"
    /\ UNCHANGED <<inp, sim, A1, A2, i, conc_v1, conc_v2, res>>

\* Lines 276-292: the fitted simulator, its curve and auc_current.
Fit08 ==
    /\ pc = "analyse08"
    /\ inp.has_measured /\ inp.measured_val > 0
    /\ LET sim_fit_obj == FitObject(sim, inp.fitted_kel)
       IN  loc' = [loc EXCEPT
                     !.sim_fit_obj = sim_fit_obj,
                     !.sim_fitted_last = LastSample(sim_fit_obj,
                                             loc.current_dose_list,
                                             inp.interval, inp.infusion_hr),
                     !.sim_fitted_kel = sim_fit_obj.kel_base,
                     !.auc_current = calc_auc24_steady(sim_fit_obj,
                                         loc.daily_dose_equiv),
                     !.used_sim_obj = sim_fit_obj,
                     !.cl_reads = Append(loc.cl_reads,
                                         [obj |-> "sim_fit_obj", at |-> 286,
                                          read |-> sim_fit_obj])]
    /\ pc' = "propose08"
    /\ UNCHANGED <<inp, sim, A1, A2, i, conc_v1, conc_v2, res>>

\* Lines 293-297: no fit, used_sim_obj = sim.
NoFit08 ==
    /\ pc = "analyse08"
    /\ ~(inp.has_measured /\ inp.measured_val > 0)
    /\ loc' = [loc EXCEPT !.used_sim_obj = sim]
    /\ pc' = "propose08"
    /\ UNCHANGED <<inp, sim, A1, A2, i, conc_v1, conc_v2, res>>

\* Lines 299-313: req_daily_dose, suggest_raw and new_dose.  base_data[-1]
\* is the last sample of sim_fitted, or of conc_base when sim_fitted is None.
Propose08 ==
    /\ pc = "propose08"
    /\ (inp.has_measured /\ inp.measured_val > 0) \/ ~inp.has_measured
    /\ LET last_dose   == loc.current_dose_list[NUM_SLOTS]
           base_last   == IF loc.sim_fitted_last # -1
                          THEN loc.sim_fitted_last ELSE loc.conc_base_last
           curr_trough == base_last
           target      == inp.target_trough * (TroughUnit \div 2)
           req_daily_dose ==
               IF inp.target_mode = "auc"
               THEN MulDiv(loc.used_sim_obj.cl, inp.target_auc, 1000)
               ELSE ReqDailyDoseTrough(loc.daily_dose_equiv, target,
                                       curr_trough)
           suggest_raw == SuggestRaw(req_daily_dose, inp.interval)
       IN  /\ res' = [kind         |-> "suggested",
                      observed_at  |-> 0,
                      trough_at    |-> GridHours(loc.current_dose_list,
                                                 inp.interval) - 1,
                      trough       |-> curr_trough,
                      target       |-> target,
                      current_dose |-> last_dose * 1000,
                      unrounded    |-> suggest_raw,
                      suggestion   |-> RoundToGranule(suggest_raw, 100) * 1000,
                      granule      |-> 100]
           /\ loc' = IF inp.target_mode = "auc"
                     THEN [loc EXCEPT
                             !.cl_reads = Append(loc.cl_reads,
                                 [obj  |-> IF loc.sim_fitted_last # -1
                                           THEN "sim_fit_obj" ELSE "sim",
                                  at   |-> 303,
                                  read |-> loc.used_sim_obj])]
                     ELSE loc
    /\ pc' = "proposed08"
    /\ UNCHANGED <<inp, sim, A1, A2, i, conc_v1, conc_v2>>

\* Line 299 otherwise: a measurement of 0, no proposal.
NoProposal08 ==
    /\ pc = "propose08"
    /\ inp.has_measured /\ inp.measured_val <= 0
    /\ pc' = "noproposal08"
    /\ UNCHANGED <<inp, sim, A1, A2, i, conc_v1, conc_v2, loc, res>>

InitSuggest == InitSuggest06 \/ InitPropose08

NextSuggest ==
    \/ BuildEvents06
    \/ Suggest06
    \/ NoSuggest06
    \/ Baseline08
    \/ Fit08
    \/ NoFit08
    \/ Propose08
    \/ NoProposal08

SpecSuggest == InitSuggest /\ [][NextSuggest]_vars

-----------------------------------------------------------------------------
(* 08_VCM_CKD.py: run_sim_schedule on two dose lists and on their sum *)

\* Pairs of dose lists of equal length (mg): single doses, lists with a
\* leading zero, and lists with amounts below zero, which the number inputs
\* of the dose slots accept.
DoseListPairs ==
    {<<a, b>> \in
        {<<250>>, <<100>>, <<-100>>, <<250, 100>>, <<0, 300>>, <<100, -300>>,
         [k \in 1..MaxDoses |-> 100],
         [k \in 1..MaxDoses |-> IF k = MaxDoses THEN 300 ELSE 0]}
        \X
        {<<250>>, <<100>>, <<-100>>, <<250, 100>>, <<0, 300>>, <<100, -300>>,
         [k \in 1..MaxDoses |-> 100],
         [k \in 1..MaxDoses |-> IF k = MaxDoses THEN 300 ELSE 0]} :
        Len(a) = Len(b)}

InputsCurves ==
    [page : {"08"}, weight : {60}, Vd_per_kg : {14, 20},
     kel : KelTrue08, lists : DoseListPairs,
     interval : {2, MaxInterval}, infusion_time : {1, 2}]

NoCurves == [curve_a |-> <<>>, curve_b |-> <<>>, curve_sum |-> <<>>]

InitCurves ==
    /\ inp \in InputsCurves
    /\ sim = [VCMSimulationCKD(inp.weight, 0,
                               [Vd_per_kg |-> inp.Vd_per_kg,
                                kel_factor |-> 10])
                  EXCEPT !.kel_base = inp.kel]
    /\ pc = "curve_a"
    /\ A1 = 0
    /\ A2 = 0
    /\ i = 0
    /\ conc_v1 = <<>>
    /\ conc_v2 = <<>>
    /\ loc = NoCurves
    /\ res = NoRes

\* run_sim_schedule(dose_list, interval, infusion_time) on the first list.
RunCurveA ==
    /\ pc = "curve_a"
    /\ loc' = [loc EXCEPT !.curve_a = run_sim_schedule(sim, inp.lists[1],
                                          inp.interval, inp.infusion_time)]
    /\ pc' = "curve_b"
    /\ UNCHANGED <<inp, sim, A1, A2, i, conc_v1, conc_v2, res>>

\* run_sim_schedule on the second list.
RunCurveB ==
    /\ pc = "curve_b"
    /\ loc' = [loc EXCEPT !.curve_b = run_sim_schedule(sim, inp.lists[2],
                                          inp.interval, inp.infusion_time)]
    /\ pc' = "curve_sum"
    /\ UNCHANGED <<inp, sim, A1, A2, i, conc_v1, conc_v2, res>>

\* run_sim_schedule on the element-wise sum of the two lists.
RunCurveSum ==
    /\ pc = "curve_sum"
    /\ loc' = [loc EXCEPT !.curve_sum =
                   run_sim_schedule(sim,
                       [k \in 1..Len(inp.lists[1]) |->
                           inp.lists[1][k] + inp.lists[2][k]],
                       inp.interval, inp.infusion_time)]
    /\ pc' = "curves"
    /\ UNCHANGED <<inp, sim, A1, A2, i, conc_v1, conc_v2, res>>

NextCurves == RunCurveA \/ RunCurveB \/ RunCurveSum

SpecCurves == InitCurves /\ [][NextCurves]_vars

-----------------------------------------------------------------------------
(* 05 and 06: the constructors and the first pass on any numbers *)

\* The constructors divide by V1 and by V2 (k12, k21, and k_el when the
\* half-life is above zero): a ZeroDivisionError when one of them is 0.
ConstructorRaises(weight, V1_per_kg, V2_per_kg) ==
    V1_per_kg * weight = 0 \/ V2_per_kg * weight = 0

\* Weight in kg, volumes per kg in cL/kg, the half-life in hours, Q in
\* cL/min; duration is the duration of the dialysis session (05) or of the
\* infusion (06), in minutes.
InputsAny ==
    [page : {"05", "06"}, weight : {-60, 0, 60}, V1_per_kg : {0, 25},
     V2_per_kg : {0, 65}, Q : {15}, T_half : {0, 12},
     amount : {500}, duration : {-1, 0, 2}, cl_hd_val : {150}]

Raised(error, line) == [kind |-> "raised", error |-> error, line |-> line]

InitAny ==
    /\ inp \in InputsAny
    /\ pc = "new"
    /\ sim = NoSim
    /\ A1 = 0
    /\ A2 = 0
    /\ i = 0
    /\ conc_v1 = <<>>
    /\ conc_v2 = <<>>
    /\ loc = NoLoc
    /\ res = NoRes

\* sim = DrugSimulation(current_params, weight), line 290 of 05.
New05 ==
    /\ pc = "new"
    /\ inp.page = "05"
    /\ IF ConstructorRaises(inp.weight, inp.V1_per_kg, inp.V2_per_kg)
       THEN /\ pc' = "raised"
            /\ res' = Raised("ZeroDivisionError", "05:18-19")
            /\ UNCHANGED <<sim, A1>>
       ELSE /\ pc' = "constructed"
            /\ sim' = DrugSimulation([V1_per_kg     |-> inp.V1_per_kg,
                                      V2_per_kg     |-> inp.V2_per_kg,
                                      Q_inter_L_min |-> inp.Q,
                                      T_half_hours  |-> inp.T_half],
                                     inp.weight)
            /\ A1' = inp.amount * 1000
            /\ UNCHANGED res
    /\ UNCHANGED <<inp, A2, i, conc_v1, conc_v2, loc>>

\* The first pass of run_scenario, with the dialysis session from minute 0.
Pass05 ==
    /\ pc = "constructed"
    /\ inp.page = "05"
    /\ LET b == ScenarioBody(sim, A1, A2, 0,
                             [given |-> TRUE, start |-> 0,
                              duration |-> inp.duration,
                              cl_val |-> inp.cl_hd_val])
       IN  /\ conc_v1' = Append(conc_v1, Conc(A1, sim.V1))
           /\ conc_v2' = Append(conc_v2, Conc(A2, sim.V2))
           /\ A1' = b.A1
           /\ A2' = b.A2
           /\ loc' = b
    /\ i' = 1
    /\ pc' = "stepped"
    /\ UNCHANGED <<inp, sim, res>>

\* VCMSimulation(weight, params), line 287 of 06.
New06 ==
    /\ pc = "new"
    /\ inp.page = "06"
    /\ IF ConstructorRaises(inp.weight, inp.V1_per_kg, inp.V2_per_kg)
       THEN /\ pc' = "raised"
            /\ res' = Raised("ZeroDivisionError", "06:19-24")
            /\ UNCHANGED sim
       ELSE /\ pc' = "constructed"
            /\ sim' = VCMSimulation(inp.weight,
                                    [V1_per_kg  |-> inp.V1_per_kg,
                                     V2_per_kg  |-> inp.V2_per_kg,
                                     Q          |-> inp.Q,
                                     T_half_off |-> inp.T_half])
            /\ UNCHANGED res
    /\ UNCHANGED <<inp, A1, A2, i, conc_v1, conc_v2, loc>>

\* run_sim on one dose event from minute 0, lines 42-61: rate = val /
\* duration raises a ZeroDivisionError for a duration of 0.
Maps06 ==
    /\ pc = "constructed"
    /\ inp.page = "06"
    /\ IF inp.duration = 0
       THEN /\ pc' = "raised"
            /\ res' = Raised("ZeroDivisionError", "06:60")
       ELSE /\ pc' = "run_sim"
            /\ UNCHANGED res
    /\ UNCHANGED <<inp, sim, A1, A2, i, conc_v1, conc_v2, loc>>

\* The first pass of the main loop of run_sim, on a grid of two minutes.
Pass06 ==
    /\ pc = "run_sim"
    /\ inp.page = "06"
    /\ i = 0
    /\ LET events == <<Dose(0, inp.duration, inp.amount)>>
           b == RunSimBody(sim, A1, A2, 0, HdMap(events, 1, 2),
                           InfusionMap(events, 1, 2))
       IN  /\ conc_v1' = Append(conc_v1, Conc(A1, sim.V1))
           /\ A1' = b.A1
           /\ A2' = b.A2
           /\ loc' = b
    /\ i' = 1
    /\ pc' = "stepped"
    /\ UNCHANGED <<inp, sim, conc_v2, res>>

NextAny == New05 \/ Pass05 \/ New06 \/ Maps06 \/ Pass06

SpecAny == InitAny /\ [][NextAny]_vars

-----------------------------------------------------------------------------
(* The engines as a caller sees them: arguments passed by reference *)
(*   T_half_off of the fitted dictionary   2^-20 h                         *)
(*   V1_per_kg of the fitted dictionary    2^-20 cL/kg                     *)

FineUnit == 1024 * 1024

\* The heap: the dictionary, the event list and the dose list of the
\* caller, and the dictionary fit_parameter_robust allocates.  A parameter
\* of an engine is a reference, the name of a field of the heap.
NoObject == <<>>

\* best_params = current_params: the same object under a second name.
DictAlias(heap, ref) == [heap |-> heap, ref |-> ref]

\* best_params = current_params.copy(), line 94: a new object with the
\* entries of the dictionary at ref.
DictCopy(heap, ref) ==
    [heap |-> [heap EXCEPT !.best_params = heap[ref]], ref |-> "best_params"]

\* VCMSimulation.__init__ on the numbers of the fitter.
VCMSimulationFine(weight, params) ==
    LET V1      == MulDiv(params.V1_per_kg, weight, FineUnit)
        V2      == params.V2_per_kg * weight
        total_V == V1 + V2
    IN  [weight |-> weight, V1 |-> V1, V2 |-> V2, Q |-> params.Q,
         k12  |-> (params.Q * RateScale) \div V1,
         k21  |-> (params.Q * RateScale) \div V2,
         k_el |-> IF params.T_half_off > 0
                  THEN MulDiv(MulDiv(11550 * 1024, total_V, V1), 1024,
                              params.T_half_off)
                  ELSE 0]

\* One pass of the main loop of run_sim at the index t, lines 63-88, from
\* p = <<A1, A2, conc_v1>>.
RunSimPass(s, hd, infusion, start_adjust, t, p) ==
    LET adj == StartAdjust(s, p[1], p[2], t, start_adjust)
        b   == RunSimBody(s, adj[1], adj[2], t, hd, infusion)
    IN  <<b.A1, b.A2, Append(p[3], Conc(adj[1], s.V1))>>

\* <<A1, A2, conc_v1>> after the passes 0 .. k-1 of the main loop of run_sim.
RECURSIVE RunSimCurve(_, _, _, _, _)
RunSimCurve(s, hd, infusion, start_adjust, k) ==
    IF k = 0 THEN <<0, 0, <<>>>>
    ELSE CHOOSE r \in {RunSimPass(s, hd, infusion, start_adjust, k - 1, p) :
                          p \in {RunSimCurve(s, hd, infusion, start_adjust,
                                             k - 1)}} : TRUE

\* run_sim(schedule_events, total_hours, start_adjust): conc_v1, the Python
\* index t at t + 1.  The events are read, never written.
run_sim(s, schedule_events, total_minutes, start_adjust) ==
    CHOOSE c \in {RunSimCurve(m[1], m[2], m[3], start_adjust,
                              total_minutes)[3] :
                     m \in {<<s,
                              HdMap(schedule_events, Len(schedule_events),
                                    total_minutes),
                              InfusionMap(schedule_events,
                                          Len(schedule_events),
                                          total_minutes)>>}} : TRUE

\* get_pred_conc(params), lines 96-99: run_sim(events) with the default
\* total_hours (336 in the code, MaxGrid minutes here).
PredConcOf(heap, ctx) ==
    CHOOSE pred \in {IF ctx.target_idx < Len(c) THEN c[ctx.target_idx + 1]
                     ELSE 0 :
                        c \in {run_sim(VCMSimulationFine(
                                           ctx.weight,
                                           heap[ctx.best_params]),
                                       heap[ctx.events], MaxGrid,
                                       NoAdjust)}} : TRUE

\* Lines 103-108: one pass of the bisection of T_half_off.
HalfLifePass(ctx, st) ==
    LET mid_t == (st.low + st.high) \div 2
    IN  CHOOSE next \in
            {[heap |-> h[1],
              low  |-> IF h[2] < ctx.target_conc THEN mid_t ELSE st.low,
              high |-> IF h[2] < ctx.target_conc THEN st.high ELSE mid_t,
              runs |-> st.runs + 1] :
                h \in {<<x, PredConcOf(x, ctx)>> :
                          x \in {[st.heap EXCEPT
                                     ![ctx.best_params].T_half_off =
                                         mid_t]}}} : TRUE

\* Lines 117-122: one pass of the bisection of V1_per_kg.
V1Pass(ctx, st) ==
    LET mid_v == (st.low + st.high) \div 2
    IN  CHOOSE next \in
            {[heap |-> h[1],
              low  |-> IF h[2] < ctx.target_conc THEN st.low ELSE mid_v,
              high |-> IF h[2] < ctx.target_conc THEN mid_v ELSE st.high,
              runs |-> st.runs + 1] :
                h \in {<<x, PredConcOf(x, ctx)>> :
                          x \in {[st.heap EXCEPT
                                     ![ctx.best_params].V1_per_kg =
                                         mid_v]}}} : TRUE

\* Lines 62-75: one pass of the bisection of fit_kel_from_measured.
KelPass(ctx, st) ==
    CHOOSE next \in
        {[low  |-> FitBounds(st.low, st.high, p.mid_k, p.pred,
                             ctx.target_val)[1],
          high |-> FitBounds(st.low, st.high, p.mid_k, p.pred,
                             ctx.target_val)[2],
          runs |-> st.runs + 1] :
            p \in {FitPredOn(ctx.weight, ctx.Vd_est, ctx.dose_list,
                             ctx.interval, ctx.infusion_time, st.low,
                             st.high, ctx.target_idx)}} : TRUE

ParamsFine ==
    [V1_per_kg : {10 * FineUnit, 25 * FineUnit}, V2_per_kg : {65}, Q : {15},
     T_half_off : {70 * FineUnit}]

\* One engine, and the arguments of its call.
InputsCalls ==
    [engine : {"fit_parameter_robust"}, weight : {30, 60},
     params : ParamsFine, events : Schedules06,
     target_idx : {2, 4, MaxGrid}, target_conc : {4000, 6000, 30000}]
    \cup
    [engine : {"run_sim"}, weight : {30, 60}, params : ParamsFine,
     events : Schedules06,
     start_adjust : {NoAdjust, [given |-> TRUE, idx |-> 3, conc |-> 15000]}]
    \cup
    [engine : {"fit_kel_from_measured"}, weight : {60}, Vd_est : {14},
     dose_list : DoseLists08, interval : {2, MaxInterval},
     infusion_time : {1}, measured_hour : {2, 5},
     target_val : MeasuredVal08]
    \cup
    [engine : {"run_sim_schedule"}, weight : {60}, Vd_est : {14},
     kel : {KelLow, 50 * KelUnit}, dose_list : DoseLists08,
     interval : {2, MaxInterval}, infusion_time : {1, 2}]

EngineOf06 == inp.engine \in {"fit_parameter_robust", "run_sim"}

\* The runs of the simulator with the call of line 110 left out.
RunsOfPassesOnly(runs) == runs

\* final_pred_p1 = get_pred_conc(best_params), line 110: one more run of the
\* simulator after the passes of phase 1.
RunsAfterPhase1(runs) == runs + 1

\* The locals of a fitter: the reference of best_params, the bounds of the
\* bisection and the number of simulator runs of the call so far.
NoCall == [best_params |-> "", low |-> 0, high |-> 0, runs |-> 0]

\* The arguments of the fitters other than the heap.
FitContext ==
    IF inp.engine = "fit_parameter_robust"
    THEN [best_params |-> loc.call.best_params, events |-> "events",
          weight |-> inp.weight, target_conc |-> inp.target_conc,
          target_idx |-> inp.target_idx]
    ELSE [weight |-> inp.weight, Vd_est |-> inp.Vd_est,
          dose_list |-> loc.heap.dose_list, interval |-> inp.interval,
          infusion_time |-> inp.infusion_time,
          target_val |-> inp.target_val, target_idx |-> inp.measured_hour]

\* The caller has built its objects and has not called yet.
InitCalls ==
    /\ inp \in InputsCalls
    /\ loc = [heap |-> [current_params |-> IF EngineOf06 THEN inp.params
                                           ELSE NoObject,
                        events         |-> IF EngineOf06 THEN inp.events
                                           ELSE NoObject,
                        dose_list      |-> IF EngineOf06 THEN NoObject
                                           ELSE inp.dose_list,
                        best_params    |-> NoObject],
              call |-> NoCall]
    /\ pc = "caller"
    /\ sim = NoSim
    /\ A1 = 0
    /\ A2 = 0
    /\ i = 0
    /\ conc_v1 = <<>>
    /\ conc_v2 = <<>>
    /\ res = <<>>

\* fit_parameter_robust called as at line 324; lines 94 and 102.
CallFitParameterRobust ==
    /\ pc = "caller"
    /\ inp.engine = "fit_parameter_robust"
    /\ Len(res) < 2
    /\ \E cp \in {DictCopy(loc.heap, "current_params")} :
           loc' = [heap |-> cp.heap,
                   call |-> [best_params |-> cp.ref, low |-> 5 * FineUnit,
                             high |-> 1000 * FineUnit, runs |-> 0]]
    /\ i' = 0
    /\ pc' = "phase1"
    /\ UNCHANGED <<inp, sim, A1, A2, conc_v1, conc_v2, res>>

\* for _ in range(20), lines 103-108: one pass of phase 1.
HalfLifeStep ==
    /\ pc = "phase1"
    /\ i < FitIterations
    /\ \E st \in {HalfLifePass(FitContext, [heap |-> loc.heap,
                                            low  |-> loc.call.low,
                                            high |-> loc.call.high,
                                            runs |-> loc.call.runs])} :
           loc' = [heap |-> st.heap,
                   call |-> [loc.call EXCEPT !.low = st.low,
                                             !.high = st.high,
                                             !.runs = st.runs]]
    /\ i' = i + 1
    /\ UNCHANGED <<pc, inp, sim, A1, A2, conc_v1, conc_v2, res>>

\* Lines 110-113 with error_p1 < 0.05 (20 * |final_pred_p1 - target_conc| <
\* target_conc): return best_params, 'T_half_off'.
ReturnAfterPhase1 ==
    /\ pc = "phase1"
    /\ i = FitIterations
    /\ \E final_pred_p1 \in {PredConcOf(loc.heap, FitContext)} :
           /\ inp.target_conc > 0
                  => 20 * Abs(final_pred_p1 - inp.target_conc)
                         < inp.target_conc
           /\ res' = Append(res,
                            [ret  |-> <<loc.heap[loc.call.best_params],
                                        "T_half_off">>,
                             runs |-> RunsAfterPhase1(loc.call.runs)])
    /\ loc' = [loc EXCEPT !.call = NoCall]
    /\ pc' = "caller"
    /\ UNCHANGED <<inp, sim, A1, A2, i, conc_v1, conc_v2>>

\* Lines 110-116 with error_p1 >= 0.05: on to phase 2.
StartPhase2 ==
    /\ pc = "phase1"
    /\ i = FitIterations
    /\ \E final_pred_p1 \in {PredConcOf(loc.heap, FitContext)} :
           /\ inp.target_conc > 0
           /\ 20 * Abs(final_pred_p1 - inp.target_conc) >= inp.target_conc
    /\ loc' = [loc EXCEPT !.call.low = 5 * FineUnit,
                          !.call.high = 100 * FineUnit,
                          !.call.runs = RunsAfterPhase1(loc.call.runs)]
    /\ i' = 0
    /\ pc' = "phase2"
    /\ UNCHANGED <<inp, sim, A1, A2, conc_v1, conc_v2, res>>

\* for _ in range(20), lines 117-122: one pass of phase 2.
V1Step ==
    /\ pc = "phase2"
    /\ i < FitIterations
    /\ \E st \in {V1Pass(FitContext, [heap |-> loc.heap,
                                      low  |-> loc.call.low,
                                      high |-> loc.call.high,
                                      runs |-> loc.call.runs])} :
           loc' = [heap |-> st.heap,
                   call |-> [loc.call EXCEPT !.low = st.low,
                                             !.high = st.high,
                                             !.runs = st.runs]]
    /\ i' = i + 1
    /\ UNCHANGED <<pc, inp, sim, A1, A2, conc_v1, conc_v2, res>>

\* Line 124: return best_params, 'V1_per_kg (Combined)'.
ReturnAfterPhase2 ==
    /\ pc = "phase2"
    /\ i = FitIterations
    /\ res' = Append(res, [ret  |-> <<loc.heap[loc.call.best_params],
                                      "V1_per_kg (Combined)">>,
                           runs |-> loc.call.runs])
    /\ loc' = [loc EXCEPT !.call = NoCall]
    /\ pc' = "caller"
    /\ UNCHANGED <<inp, sim, A1, A2, i, conc_v1, conc_v2>>

\* A call of run_sim as at lines 288 and 329.
CallRunSim ==
    /\ pc = "caller"
    /\ inp.engine = "run_sim"
    /\ Len(res) < 2
    /\ res' = Append(res,
                     [ret  |-> run_sim(VCMSimulationFine(
                                           inp.weight,
                                           loc.heap.current_params),
                                       loc.heap.events, MaxGrid,
                                       inp.start_adjust),
                      runs |-> 1])
    /\ UNCHANGED <<pc, inp, sim, A1, A2, i, conc_v1, conc_v2, loc>>

\* fit_kel_from_measured called as at line 270; lines 57-60.  dummy_params
\* is a dictionary of the function's own.
CallFitKelFromMeasured ==
    /\ pc = "caller"
    /\ inp.engine = "fit_kel_from_measured"
    /\ Len(res) < 2
    /\ loc' = [loc EXCEPT !.call = [best_params |-> "", low |-> KelLow,
                                    high |-> KelHigh, runs |-> 0]]
    /\ i' = 0
    /\ pc' = "fit_kel"
    /\ UNCHANGED <<inp, sim, A1, A2, conc_v1, conc_v2, res>>

\* for _ in range(20), lines 62-75: one pass.
KelStep ==
    /\ pc = "fit_kel"
    /\ i < FitIterations
    /\ \E st \in {KelPass(FitContext, loc.call)} :
           loc' = [loc EXCEPT !.call.low = st.low, !.call.high = st.high,
                              !.call.runs = st.runs]
    /\ i' = i + 1
    /\ UNCHANGED <<pc, inp, sim, A1, A2, conc_v1, conc_v2, res>>

\* Line 77: return (low_k + high_k) / 2.
ReturnKel ==
    /\ pc = "fit_kel"
    /\ i = FitIterations
    /\ res' = Append(res, [ret  |-> (loc.call.low + loc.call.high) \div 2,
                           runs |-> loc.call.runs])
    /\ loc' = [loc EXCEPT !.call = NoCall]
    /\ pc' = "caller"
    /\ UNCHANGED <<inp, sim, A1, A2, i, conc_v1, conc_v2>>

\* A call of run_sim_schedule as at line 228.
CallRunSimSchedule ==
    /\ pc = "caller"
    /\ inp.engine = "run_sim_schedule"
    /\ Len(res) < 2
    /\ LET s == [VCMSimulationCKD(inp.weight, 0,
                                  [Vd_per_kg |-> inp.Vd_est,
                                   kel_factor |-> 10])
                     EXCEPT !.kel_base = inp.kel]
       IN  res' = Append(res,
                         [ret  |-> run_sim_schedule(s, loc.heap.dose_list,
                                                    inp.interval,
                                                    inp.infusion_time),
                          runs |-> 1])
    /\ UNCHANGED <<pc, inp, sim, A1, A2, i, conc_v1, conc_v2, loc>>

NextCalls ==
    \/ CallFitParameterRobust
    \/ HalfLifeStep
    \/ ReturnAfterPhase1
    \/ StartPhase2
    \/ V1Step
    \/ ReturnAfterPhase2
    \/ CallRunSim
    \/ CallFitKelFromMeasured
    \/ KelStep
    \/ ReturnKel
    \/ CallRunSimSchedule

SpecCalls == InitCalls /\ [][NextCalls]_vars

-----------------------------------------------------------------------------
(* 06 and 08: the sidebar and st.session_state *)
(*   weights kg, doses mg, creatinine in tenths of mg/dL,                  *)
(*   CCr and eGFR in 10^-3 mL/min, intervals in hours                      *)

\* The callbacks and page runs a model run follows.
MaxEvents == 3

\* The two options of the radio "renal function input", line 161 of 08, in
\* English: the first is the "compute from age, sex and Cre" label followed
\* by "(recommended)", the second the "enter eGFR directly" label followed
\* by "(needs BSA correction)".
InputModeOptions ==
    <<"compute from age, sex, Cre(recommended)",
      "enter eGFR directly(needs BSA correction)">>

\* The string lines 106 and 167 of 08 compare input_mode with, and the
\* default of st.session_state.get('input_mode', ...) at line 103.
ComputeLabel == "compute from age, sex, Cre"

\* The defaults of st.session_state.get at lines 107-109 and 113 of 08.
AgeDefault == 70
SexDefault == "male"
CrDefault == 12
EgfrDefault == 45

\* update_dose_cascade without the test new_val < 0.
CascadeUnclamped(doses, current_idx, increment, slots) ==
    [j \in 1..slots |->
        IF j >= current_idx THEN doses[current_idx] + increment ELSE doses[j]]

\* update_dose_cascade(target_key, increment), lines 167-176 of 06 and
\* 141-150 of 08, on the dose slots of st.session_state: target_key is
\* 'dose_k' or 'ckd_dose_k' with k = current_idx, slots is DOSE_SLOTS or
\* NUM_SLOTS.
update_dose_cascade(doses, current_idx, increment, slots) ==
    LET sum     == doses[current_idx] + increment
        new_val == IF sum < 0 THEN 0 ELSE sum
    IN  [j \in 1..slots |-> IF j >= current_idx THEN new_val ELSE doses[j]]

\* auto_calc_hd_recommendation, lines 147-158 of 06: the dose slots.
auto_calc_hd_recommendation(w) ==
    LET load     == RoundHalfEven(w * 20, 50) * 50
        maint    == RoundHalfEven(w * 10, 50) * 50
        rec_load  == IF load > 2000 THEN 2000 ELSE load
        rec_maint == IF maint > 1000 THEN 1000 ELSE maint
    IN  [j \in 1..DOSE_SLOTS |-> IF j = 1 THEN rec_load ELSE rec_maint]

\* calc_ccr(age, sex, cr, weight), lines 172-174 of 08, and lines 110-111.
calc_ccr(age, sex, cr, weight) ==
    LET val == MulDiv((140 - age) * weight, 10000, 72 * cr)
    IN  IF sex = "female" THEN MulDiv(val, 85, 100) ELSE val

\* Lines 116-119 of 08: rec_int.
RecInterval(ccr_est) ==
    IF ccr_est > 60000 THEN 12
    ELSE IF 40000 <= ccr_est /\ ccr_est <= 60000 THEN 24
    ELSE IF 20000 <= ccr_est /\ ccr_est < 40000 THEN 48
    ELSE 72

\* Lines 105-113 of 08: ccr_est of the callback.  The widgets of age, sex
\* and Cre are created at lines 168-170 only, so that without them
\* st.session_state.get returns its defaults.
CcrEst(session_state) ==
    IF session_state.input_mode = ComputeLabel
    THEN calc_ccr(AgeDefault, SexDefault, CrDefault,
                  session_state.weight_input)
    ELSE session_state.egfr_input_val * 1000

\* auto_calc_recommendation, lines 98-132 of 08: st.session_state after it.
auto_calc_recommendation(session_state) ==
    LET w         == session_state.weight_input
        load      == RoundHalfEven(w * 20, 100) * 100
        maint     == RoundHalfEven(w * 15, 100) * 100
        rec_load  == IF load > 2500 THEN 2500 ELSE load
        rec_maint == IF maint > 2000 THEN 2000 ELSE maint
    IN  [session_state EXCEPT
            !.interval_input = RecInterval(CcrEst(session_state)),
            !.doses = [j \in 1..NUM_SLOTS |->
                          IF j = 1 THEN rec_load ELSE rec_maint]]

\* Lines 160-187 of 08: ccr_for_sim of a run of the page.
CcrForSim(session_state) ==
    IF session_state.input_mode = ComputeLabel
    THEN calc_ccr(AgeDefault, SexDefault, CrDefault,
                  session_state.weight_input)
    ELSE session_state.egfr_input_val * 1000

\* A run of the script after a callback: what the page hands to its
\* simulator (lines 282 of 06, 225-228 of 08).
PageRun(page, session_state) ==
    IF page = "06"
    THEN [kind |-> "page06", current_doses |-> session_state.doses]
    ELSE [kind |-> "page08",
          ccr_for_sim |-> CcrForSim(session_state),
          interval |-> session_state.interval_input,
          current_dose_list |-> session_state.doses]

Slots(page) == IF page = "06" THEN DOSE_SLOTS ELSE NUM_SLOTS

\* st.session_state of the first run of the page (lines 160-164 of 06,
\* 134-138 and the widget defaults of 08), or with doses typed into the
\* number inputs of the slots, which have no minimum.
SessionStates ==
    [page : {"06"}, weight_input : {60},
     doses : {[j \in 1..DOSE_SLOTS |-> IF j = 1 THEN 1000 ELSE 500],
              [j \in 1..DOSE_SLOTS |-> IF j = 1 THEN 75 ELSE 25],
              [j \in 1..DOSE_SLOTS |-> IF j = 3 THEN -25 ELSE 50 * j]}]
    \cup
    [page : {"08"}, weight_input : {60},
     input_mode : {InputModeOptions[1]}, egfr_input_val : {EgfrDefault},
     interval_input : {24},
     doses : {[j \in 1..NUM_SLOTS |-> IF j = 1 THEN 1500 ELSE 1000],
              [j \in 1..NUM_SLOTS |-> IF j = 1 THEN 75 ELSE 25]}]

NoEvent == [kind |-> "none"]

InitSidebar ==
    /\ inp \in SessionStates
    /\ pc = "shown"
    /\ sim = NoSim
    /\ A1 = 0
    /\ A2 = 0
    /\ i = 0
    /\ conc_v1 = <<>>
    /\ conc_v2 = <<>>
    /\ loc = [session_state |-> inp, event |-> NoEvent, before |-> inp]
    /\ res = PageRun(inp.page, inp)

\* The callback of an event has run: the script runs again on the new
\* session state.
Rerun(kind, event, session_state) ==
    /\ loc' = [session_state |-> session_state, event |-> event,
               before |-> loc.session_state]
    /\ res' = PageRun(inp.page, session_state)
    /\ pc' = kind
    /\ i' = i + 1
    /\ UNCHANGED <<inp, sim, A1, A2, conc_v1, conc_v2>>

\* A press of the minus or plus button of slot k, lines 252-254 of 06 and
\* 213-215 of 08.
PressCascade ==
    /\ i < MaxEvents
    /\ \E k \in 1..Slots(inp.page), increment \in {-50, 50} :
           Rerun("cascaded",
                 [kind |-> "update_dose_cascade", slot |-> k,
                  increment |-> increment],
                 [loc.session_state EXCEPT
                     !.doses = update_dose_cascade(@, k, increment,
                                                   Slots(inp.page))])

\* A change of the weight on the 06 page, lines 181-184.
ChangeWeight06 ==
    /\ i < MaxEvents
    /\ inp.page = "06"
    /\ \E w \in {30, 60, 150} :
           /\ w # loc.session_state.weight_input
           /\ Rerun("recommended", [kind |-> "weight_input"],
                    [loc.session_state EXCEPT
                        !.weight_input = w,
                        !.doses = auto_calc_hd_recommendation(w)])

\* A change of the weight on the 08 page, lines 155-158.
ChangeWeight08 ==
    /\ i < MaxEvents
    /\ inp.page = "08"
    /\ \E w \in {30, 60, 150} :
           /\ w # loc.session_state.weight_input
           /\ Rerun("recommended", [kind |-> "weight_input"],
                    auto_calc_recommendation(
                        [loc.session_state EXCEPT !.weight_input = w]))

\* The choice of the other option of the radio, lines 160-163 of 08.
ChangeInputMode ==
    /\ i < MaxEvents
    /\ inp.page = "08"
    /\ \E k \in 1..2 :
           /\ InputModeOptions[k] # loc.session_state.input_mode
           /\ Rerun("recommended", [kind |-> "input_mode"],
                    auto_calc_recommendation(
                        [loc.session_state EXCEPT
                            !.input_mode = InputModeOptions[k]]))

\* A change of the eGFR input, lines 182-185 of 08; the page shows it when
\* the test of line 167 fails.
ChangeEgfr ==
    /\ i < MaxEvents
    /\ inp.page = "08"
    /\ loc.session_state.input_mode # ComputeLabel
    /\ \E e \in {15, 45, 90} :
           /\ e # loc.session_state.egfr_input_val
           /\ Rerun("recommended", [kind |-> "egfr_input_val"],
                    auto_calc_recommendation(
                        [loc.session_state EXCEPT !.egfr_input_val = e]))

NextSidebar ==
    \/ PressCascade
    \/ ChangeWeight06
    \/ ChangeWeight08
    \/ ChangeInputMode
    \/ ChangeEgfr

SpecSidebar == InitSidebar /\ [][NextSidebar]_vars

-----------------------------------------------------------------------------
(* Claims about the fitter of 08 *)

\* The bisection ended with one of its bounds never moved.
PinnedAtBoundary == loc.low_k = KelLow \/ loc.high_k = KelHigh

\* C7: whenever the bisection ends pinned at a boundary of its search
\* interval, the value returned to the caller carries a flag that tells it
\* from a confident interior fit.
C7_PinnedFitIsFlagged ==
    (pc = "fitted" /\ PinnedAtBoundary) =>
        /\ "low_confidence" \in DOMAIN res
        /\ res["low_confidence"] = TRUE

\* The resolution of the bisection: (0.5 - 0.001) / 2^20.
FitResolution == (KelHigh - KelLow) \div (1024 * 1024)

\* C8: the concentration run_sim_schedule gives for a kel of [0.001, 0.5] at
\* an observation hour where it is positive, fed to fit_kel_from_measured
\* with the same weight, Vd, dose list, interval and infusion time, returns a
\* kel within (0.5 - 0.001) / 2^20 of the original.
C8_FitterRoundTrip ==
    (/\ pc = "fitted"
     /\ inp.round_trip
     /\ loc.target_val > 0
     /\ KelLow <= inp.kel_true /\ inp.kel_true <= KelHigh) =>
        Abs(res.ret - inp.kel_true) <= FitResolution

\* C8: a round trip has ended on a kel inside the search interval, both
\* bounds moved, from a positive concentration after the second dose.
C8_Witness ==
    /\ pc = "fitted"
    /\ inp.round_trip
    /\ loc.target_val > 0
    /\ inp.kel_true = 50 * KelUnit + 12345
    /\ inp.dose_list = <<1000, 500>>
    /\ inp.measured_hour = 5
    /\ ~PinnedAtBoundary
    /\ Abs(res.ret - inp.kel_true) <= FitResolution

-----------------------------------------------------------------------------
(* Claims about the dose advisor *)

Revised == pc \in {"revised06", "revised08"}

\* The start of the infusion of the dose of slot k (from 1), in the time unit
\* of the page: 06 doses follow the dialysis session of their slot, 08 doses
\* start every interval hours.
InfusionStart(k) ==
    IF pc = "revised06" THEN loc.hd_times[k] + inp.hd_duration_min
    ELSE (k - 1) * inp.interval

\* The observation point was selected (08 has a mode without measurement).
ObservationSelected == pc = "revised06" \/ inp.has_measured

\* C10: in the revised dose list every dose whose infusion starts before the
\* observation time keeps its baseline amount, every dose that starts after
\* it has the revised amount, and the baseline list is as it was; for every
\* selectable observation point.
C10_AdvisorKeepsHistory ==
    (Revised /\ ObservationSelected) =>
        /\ \A k \in 1..Len(res.modified_doses) :
               /\ InfusionStart(k) < res.target_min =>
                      res.modified_doses[k] = loc.current_doses[k]
               /\ InfusionStart(k) > res.target_min =>
                      res.modified_doses[k] = res.revised_dose
        /\ loc.current_doses
               = (IF pc = "revised06" THEN inp.current_doses
                  ELSE inp.current_dose_list)

-----------------------------------------------------------------------------
(* Claims about the suggested dose *)

Suggested == pc \in {"suggested06", "proposed08"}

\* The suggestion came from the scaling to a target trough (always in 06).
TroughTarget == pc = "suggested06" \/ inp.target_mode = "trough"

\* C11: the simulated trough the trough-target advisor scales against is
\* the sample just before the next dose or removal event: in 06 the sample
\* at the start minute of a dialysis session not before the observation, in
\* 08 a sample at (or one hour before) the hour a dose of the schedule is
\* due, never a sample after the schedule has ended.
C11_TroughPrecedesNextEvent ==
    (Suggested /\ TroughTarget) =>
        IF pc = "suggested06"
        THEN /\ \E k \in 1..Len(loc.hd_times) : res.trough_at = loc.hd_times[k]
             /\ res.trough_at >= res.observed_at
        ELSE \E k \in 1..NUM_SLOTS :
                 res.trough_at \in {k * inp.interval - 1, k * inp.interval}

\* C12: with a positive simulated trough the suggestion before rounding is
\* currentDose * (targetTrough / simulatedTrough) (to the last digit kept);
\* with a trough that is not positive it is the current dose.
C12_TroughScaling ==
    (Suggested /\ TroughTarget) =>
        IF res.trough > 0
        THEN Abs(res.unrounded
                 - MulDiv(res.current_dose, res.target, res.trough)) <= 1
        ELSE res.unrounded = res.current_dose

\* 1000 mg, simulated trough 10, target 15: 1500 mg before rounding.
C12_Witness ==
    /\ pc = "suggested06"
    /\ res.current_dose = 1000 * 1000
    /\ res.trough = 10 * 1000
    /\ res.target = 15 * 1000
    /\ res.unrounded = 1500 * 1000

\* The proposal of 08 for an AUC24 target, the clearance read being positive.
AucTarget ==
    pc = "proposed08" /\ inp.target_mode = "auc" /\ loc.used_sim_obj.cl > 0

\* C13: for an AUC24 target the steady-state AUC24 recomputed from the
\* rounded dose, new_dose * (24 / interval) / CL, is within
\* 50 * (24 / interval) / CL of the target (to the last digits kept).
C13_AucWithinGranularity ==
    AucTarget =>
        Abs(calc_auc24_steady(loc.used_sim_obj,
                              TimesPerDay(res.suggestion, inp.interval))
            - inp.target_auc * 1000)
            <= calc_auc24_steady(loc.used_sim_obj,
                                 TimesPerDay(50 * 1000, inp.interval) + 3) + 2

C13_Witness ==
    /\ AucTarget
    /\ inp.interval = 12
    /\ res.suggestion > 0
    /\ res.suggestion # res.unrounded

\* C14: every proposed dose is a multiple of the granule of its page (50 mg
\* in 06, 100 mg in 08) and within half a granule of the unrounded value.
C14_ProposalsRounded ==
    Suggested =>
        /\ res.suggestion % (res.granule * 1000) = 0
        /\ Abs(res.suggestion - res.unrounded) <= res.granule * 500

\* The states of the 08 page in which cl has been read.
ClRead == pc \in {"analyse08", "propose08", "proposed08", "noproposal08"}

\* C15: every cl read (by calc_auc24_steady or by the advisor) is Vd times
\* the kel_base of the object read, and that kel_base is the one the curve
\* shown for the object was computed with.
C15_ClConsistentWithKel ==
    ClRead =>
        \A k \in 1..Len(loc.cl_reads) :
            LET r == loc.cl_reads[k]
            IN  /\ r.read.cl = MulDiv(r.read.kel_base, r.read.Vd * 50, KelUnit)
                /\ r.read.kel_base = (IF r.obj = "sim" THEN loc.conc_base_kel
                                      ELSE loc.sim_fitted_kel)

\* The advisor has read the cl of a fitted object whose kel is not the
\* baseline's.
C15_Witness ==
    /\ pc = "proposed08"
    /\ Len(loc.cl_reads) = 3
    /\ loc.cl_reads[3].obj = "sim_fit_obj"
    /\ loc.cl_reads[3].read.kel_base # sim.kel_base

\* C24: for each of the seven measurement points of the 06 page the fitter
\* compares the measured value with a sample of the simulated curve, never
\* with the value 0 it takes for an index past the end of the curve.
C24_FitHorizonContainsObservation ==
    pc = "suggested06" => res.fit_pred = "curve"

-----------------------------------------------------------------------------
(* Claims about the curves of run_sim_schedule *)

\* The three curves are there.
CurvesDone == pc = "curves"

\* At every sample the curve of the sum is the sum of the two curves, to the
\* rounding of one unit for each dose of each list.
CurvesAdd ==
    \A j \in 1..Len(loc.curve_sum) :
        Abs(loc.curve_sum[j] - (loc.curve_a[j] + loc.curve_b[j]))
            <= 2 * Len(inp.lists[1])

\* Every sample of the curve c of dose_list before the start of its first
\* dose above zero is 0.
NothingBeforeStart(c, dose_list) ==
    \A j \in 1..Len(c) :
        (\A k \in 1..Len(dose_list) :
             dose_list[k] > 0 => j - 1 < (k - 1) * inp.interval)
            => c[j] = 0

\* No amount of the two lists is below zero.
NonNegativeDoses ==
    \A n \in 1..2 : \A k \in 1..Len(inp.lists[n]) : inp.lists[n][k] >= 0

\* C16 as stated: for any two dose lists of equal length the curve of their
\* element-wise sum is the sum of their curves at every sample, and a dose
\* contributes nothing before its start.
C16_SuperpositionAnyDoses ==
    CurvesDone =>
        /\ CurvesAdd
        /\ NothingBeforeStart(loc.curve_a, inp.lists[1])
        /\ NothingBeforeStart(loc.curve_b, inp.lists[2])

\* C16, amended: the same for two dose lists whose amounts are not below
\* zero (run_sim_schedule skips a dose d <= 0).
C16_SuperpositionNonNegativeDoses ==
    (CurvesDone /\ NonNegativeDoses) =>
        /\ CurvesAdd
        /\ NothingBeforeStart(loc.curve_a, inp.lists[1])
        /\ NothingBeforeStart(loc.curve_b, inp.lists[2])

\* Two lists with doses above zero in the same slot and a later first dose
\* in one of them.
C16_Witness ==
    /\ CurvesDone
    /\ NonNegativeDoses
    /\ inp.lists[1] = <<250, 100>>
    /\ inp.lists[2] = <<0, 300>>
    /\ loc.curve_b[inp.interval] = 0
    /\ loc.curve_sum[Len(loc.curve_sum)] > loc.curve_a[Len(loc.curve_a)]

\* A run of the integrator of 06 on a single dose, with no dialysis, no
\* reset to a measurement, and kel > 0.
SingleDose06 ==
    /\ Page06 \/ (pc = "done" /\ inp.page = "06")
    /\ Len(inp.schedule_events) = 1
    /\ inp.schedule_events[1].type = "dose"
    /\ ~inp.start_adjust.given
    /\ sim.k_el > 0

\* The curve of 08 of a single dose above zero, with kel > 0.
SingleDose08 ==
    /\ CurvesDone
    /\ Len(inp.lists[1]) = 1
    /\ inp.lists[1][1] > 0
    /\ sim.kel_base > 0

\* Every sample of c after the grid index end is below the sample before it.
DecaysAfter(c, end) ==
    \A j \in 1..(Len(c) - 1) : j - 1 >= end => c[j + 1] < c[j]

\* C17: for a single dose, no removal and kel > 0, every sample of the
\* central concentration after the end of the infusion is strictly below
\* the sample before it, in the integrator of 06 and in the closed form of
\* 08.
C17_DecaysAfterInfusion ==
    /\ SingleDose06 =>
           DecaysAfter(conc_v1, inp.schedule_events[1].start
                                    + inp.schedule_events[1].duration)
    /\ SingleDose08 => DecaysAfter(loc.curve_a, inp.infusion_time)

-----------------------------------------------------------------------------
(* Claims about the infusion input of run_sim *)

\* The dose events of the schedule whose infusion covers the grid minute t.
ActiveDoses(t) ==
    {k \in 1..Len(inp.schedule_events) :
        /\ inp.schedule_events[k].type = "dose"
        /\ inp.schedule_events[k].start <= t
        /\ t < inp.schedule_events[k].start + inp.schedule_events[k].duration}

\* The pass of run_sim at the grid minute loc.t has been made.
Stepped06 == inp.page = "06" /\ pc \in {"run_sim", "done"} /\ i > 0

\* The input of the pass is the sum of amount / duration over the dose
\* events active at its minute.
InputIsSumOfActive ==
    loc.input_drug
        = SumVals({<<k, DoseRate(inp.schedule_events[k])>> :
                       k \in ActiveDoses(loc.t)})

\* The sum of infusion_map over the grid: what the run adds in all.
TotalInput ==
    SumVals({<<t, infusion_map[t]>> : t \in 0..(inp.total_minutes - 1)})

\* The sum over the dose events of amount * (minutes of the event within
\* the first n minutes) / duration.
AmountWithin(n) ==
    SumVals({<<k, MulDiv(inp.schedule_events[k].val * 1000,
                         Cardinality({t \in 0..(n - 1) : k \in ActiveDoses(t)}),
                         inp.schedule_events[k].duration)>> :
                 k \in {d \in 1..Len(inp.schedule_events) :
                           inp.schedule_events[d].type = "dose"}})

\* The rounding of the rates: a unit for each minute of each dose event.
RateRounding ==
    SumVals({<<k, inp.schedule_events[k].duration>> :
                 k \in {d \in 1..Len(inp.schedule_events) :
                           inp.schedule_events[d].type = "dose"}})

\* The longest a schedule of the model lasts.
Horizon == 2 * MaxGrid + 3

\* C18 as stated: at every grid minute the infusion input is the sum of
\* amount / duration over the active dose events, and over the whole run
\* every dose event (duration > 0, start >= 0) adds its amount.
C18_EveryDoseAddsItsAmount ==
    Stepped06 =>
        /\ InputIsSumOfActive
        /\ pc = "done" => Abs(TotalInput - AmountWithin(Horizon)) <= RateRounding

\* C18, amended: the same input at every grid minute; over the whole run a
\* dose event adds amount * (its minutes within the grid) / duration, which
\* is its amount when the event ends within the grid.
C18_DoseAddsItsPartWithinGrid ==
    Stepped06 =>
        /\ InputIsSumOfActive
        /\ pc = "done" =>
               Abs(TotalInput - AmountWithin(inp.total_minutes)) <= RateRounding

\* Two doses active at the same minute, in a finished run all of whose doses
\* end within the grid.
C18_Witness ==
    /\ Stepped06
    /\ pc = "done"
    /\ \E t \in 0..(inp.total_minutes - 1) : Cardinality(ActiveDoses(t)) = 2
    /\ AmountWithin(inp.total_minutes) = AmountWithin(Horizon)
    /\ TotalInput = 130 * 1000

-----------------------------------------------------------------------------
(* Claims about invalid parameters *)

\* The fields of the input that are not above zero.
InvalidFields ==
    {f \in {"weight", "V1_per_kg", "V2_per_kg", "duration"} : inp[f] <= 0}

\* C19: an input with a weight, a volume or a duration that is not above
\* zero is rejected with the field named, before a constructor or a pass of
\* an integrator has run on it.
C19_InvalidParametersRejected ==
    (inp.page \in {"05", "06"} /\ pc \in {"constructed", "raised", "run_sim",
                                            "stepped"}
        /\ InvalidFields # {}) =>
        /\ res.kind = "rejected"
        /\ res.field \in InvalidFields

-----------------------------------------------------------------------------
(* Claims about the clamp of the integrators *)

\* The clamp of the last pass replaced a value below zero: max(0, .) on A1
\* in all three loops, on A2 in the loops of 05 only.
ClampChangedA1 == loc.t >= 0 /\ loc.A1_raw < 0
ClampChangedA2 == loc.t >= 0 /\ loc.A2_raw < 0 /\ loc.A2 # loc.A2_raw

\* C20: whenever the clamp of an integrator pass changes A1 or A2, the value
\* it replaces is below zero by no more than one hundredth of the amount the
\* compartment held before the pass.
C20_ClampOnlyNearZero ==
    /\ ClampChangedA1 => -loc.A1_raw <= loc.A1_in \div 100
    /\ ClampChangedA2 => -loc.A2_raw <= loc.A2_in \div 100

-----------------------------------------------------------------------------
(* Claims about the engines as a caller sees them *)

\* The objects of the caller are what they were before the first call.
CallerObjectsKept ==
    /\ loc.heap.current_params = (IF EngineOf06 THEN inp.params ELSE NoObject)
    /\ loc.heap.events = (IF EngineOf06 THEN inp.events ELSE NoObject)
    /\ loc.heap.dose_list = (IF EngineOf06 THEN NoObject ELSE inp.dose_list)

\* C21: a second call of an engine with the same arguments returns what the
\* first call returned, and after any number of calls the parameter
\* dictionary, the event list and the dose list of the caller are unchanged.
C21_CallsIdempotentAndFrameKept ==
    /\ CallerObjectsKept
    /\ Len(res) = 2 => res[1].ret = res[2].ret

\* fit_parameter_robust has been called twice and its result differs from
\* the dictionary it was given in both fitted entries.
C21_Witness ==
    /\ inp.engine = "fit_parameter_robust"
    /\ Len(res) = 2
    /\ res[2].ret[2] = "V1_per_kg (Combined)"
    /\ res[2].ret[1].T_half_off # inp.params.T_half_off
    /\ res[2].ret[1].V1_per_kg # inp.params.V1_per_kg

\* A fitter has returned at least once.
FitReturned ==
    /\ inp.engine \in {"fit_parameter_robust", "fit_kel_from_measured"}
    /\ Len(res) >= 1

\* C23: every fit makes FitIterations = 20 passes with one run of the
\* simulator each, whatever the observation, and the kel that
\* fit_kel_from_measured returns is in [0.001, 0.5].
C23_EveryFitCostsTwentyRuns ==
    FitReturned =>
        \A k \in 1..Len(res) :
            /\ res[k].runs = FitIterations
            /\ inp.engine = "fit_kel_from_measured"
                   => KelLow <= res[k].ret /\ res[k].ret <= KelHigh

\* C23 as the code has it: fit_kel_from_measured makes 20 runs and returns a
\* kel in [0.001, 0.5]; fit_parameter_robust makes 20 passes and one more run
\* when phase 1 fits within 5 %, and 40 passes and 41 runs when it goes on to
\* phase 2.
C23_FitCostByPhase ==
    FitReturned =>
        \A k \in 1..Len(res) :
            IF inp.engine = "fit_kel_from_measured"
            THEN /\ res[k].runs = FitIterations
                 /\ KelLow <= res[k].ret /\ res[k].ret <= KelHigh
            ELSE \/ /\ res[k].ret[2] = "T_half_off"
                    /\ res[k].runs = FitIterations + 1
                 \/ /\ res[k].ret[2] = "V1_per_kg (Combined)"
                    /\ res[k].runs = 2 * FitIterations + 1

\* fit_parameter_robust has returned from phase 2.
C23_Witness ==
    /\ FitReturned
    /\ inp.engine = "fit_parameter_robust"
    /\ res[1].ret[2] = "V1_per_kg (Combined)"
    /\ res[1].runs > FitIterations

-----------------------------------------------------------------------------
(* Claims about the two forms of the dialyser clearance *)

\* |1 - Qb/Qd| = 0.001: the flows nearest to each other for which
\* calculate_hd_clearance takes the general formula.
AtSwitchOver ==
    inp.Qb > 0 /\ inp.Qd > 0 /\ inp.KoA > 0
        /\ 1000 * Abs(inp.Qd - inp.Qb) = inp.Qd

\* Qb * KoA / (KoA + Qb) in 10^-3 mL/min.
LimitingForm == MulDiv(inp.Qb * 1000, inp.KoA, inp.KoA + inp.Qb)

\* C22: at the switch-over the clearance of the general formula differs from
\* the limiting form Qb * KoA / (KoA + Qb) by at most one thousandth of the
\* limiting form.
C22_ClearanceContinuousAtSwitchOver ==
    (Cleared /\ AtSwitchOver) =>
        \A c \in {HdClearance(inp.Qb, inp.Qd, inp.KoA)} :
            \A limit \in {LimitingForm} :
                c.branch = "general"
                    => 1000 * Abs(c.clearance - limit) <= limit

\* The general formula at Qb = 0.999 * Qd, where it is above the limiting
\* form by more than one part in ten thousand.
C22_Witness ==
    /\ Cleared /\ AtSwitchOver
    /\ inp.Qb < inp.Qd
    /\ res.branch = "general"
    /\ \E c \in {HdClearance(inp.Qb, inp.Qd, inp.KoA)} :
           \E limit \in {LimitingForm} :
               10000 * (c.clearance - limit) > limit

-----------------------------------------------------------------------------
(* Claims about one pass of the integrators *)

\* The last pass of an integrator loop (pre-roll loop included) has run;
\* loc holds its amounts before and after.
PassDone == loc.t >= 0 /\ pc \in {"preroll", "run_hd", "run_none", "run_sim",
                                   "done"}

\* C25: a pass with no infusion input leaves A1 + A2, after the clamp, no
\* greater than it was before the pass.
C25_PassCreatesNoDrug ==
    (PassDone /\ loc.input_drug = 0) =>
        loc.A1 + loc.A2 <= loc.A1_in + loc.A2_in

\* k12 + kel + clearance / V1 <= 1 and k21 <= 1 for the clearance of the last
\* pass (the rates in 10^-6 per minute, clearance / V1 rounded up).
OutflowWithinOne ==
    /\ sim.k12 + sim.k_el
           + ((loc.current_cl * RateScale) \div (10 * sim.V1) + 1)
           <= RateScale
    /\ sim.k21 <= RateScale

\* C26: when k12 + kel + clearance / V1 <= 1 and k21 <= 1 and the amounts
\* before a pass are non-negative, the pass computes non-negative amounts
\* and the clamp changes nothing.
C26_NoClampWithinStability ==
    (PassDone /\ OutflowWithinOne /\ loc.A1_in >= 0 /\ loc.A2_in >= 0) =>
        /\ loc.A1_raw >= 0 /\ loc.A2_raw >= 0
        /\ loc.A1 = loc.A1_raw /\ loc.A2 = loc.A2_raw

\* A pass during dialysis that moves at least half of A1 to the peripheral
\* compartment and stays within the condition.
C26_Witness ==
    /\ PassDone /\ OutflowWithinOne
    /\ loc.A1_in > 0 /\ loc.A2_in >= 0
    /\ 2 * sim.k12 >= RateScale
    /\ loc.current_cl > 0
    /\ loc.A1_raw >= 0
    /\ loc.A1_raw < loc.A1_in

-----------------------------------------------------------------------------
(* Claims about the sidebar *)

Cascaded == pc = "cascaded"

NonNegative(doses) == \A j \in DOMAIN doses : doses[j] >= 0

\* C27: a cascade edit of slot k sets slot k to max(0, old value +
\* increment) and every later slot to that same value, leaves every earlier
\* slot as it was, and from non-negative doses leaves every slot
\* non-negative (six slots in 06, fourteen in 08).
C27_CascadeEdit ==
    Cascaded =>
        \A old \in {loc.before.doses} : \A new \in {loc.session_state.doses} :
            \A k \in {loc.event.slot} :
                /\ DOMAIN new = 1..Slots(inp.page)
                /\ new[k] = IF old[k] + loc.event.increment > 0
                            THEN old[k] + loc.event.increment ELSE 0
                /\ \A j \in DOMAIN new :
                       /\ j > k => new[j] = new[k]
                       /\ j < k => new[j] = old[j]
                /\ NonNegative(old) => NonNegative(new)
                /\ res[IF inp.page = "06" THEN "current_doses"
                       ELSE "current_dose_list"] = new

\* A minus press on a slot below 50 mg in the middle of the list, with
\* different doses before and after it.
C27_Witness ==
    /\ Cascaded
    /\ NonNegative(loc.before.doses)
    /\ loc.event.slot > 1
    /\ loc.event.slot < Slots(inp.page)
    /\ loc.before.doses[loc.event.slot] + loc.event.increment < 0
    /\ loc.session_state.doses[loc.event.slot] = 0
    /\ loc.before.doses[Slots(inp.page)] > 0
    /\ loc.session_state.doses[1] > 0

\* C28: with the option "compute from age, sex and creatinine" selected the
\* renal index of the simulator and of the recommendation is the
\* Cockcroft-Gault CCr; the entered eGFR is used with the other option only.
C28_ComputeModeUsesCockcroftGault ==
    (res.kind = "page08" /\ loc.session_state.input_mode = InputModeOptions[1])
        => \A ccr \in {calc_ccr(AgeDefault, SexDefault, CrDefault,
                                loc.session_state.weight_input)} :
               /\ res.ccr_for_sim = ccr
               /\ pc = "recommended" => res.interval = RecInterval(ccr)

-----------------------------------------------------------------------------
(* Claims about the dialysis schedule *)

Scheduled06 == pc \in {"tdm06", "revised06", "norevision06"}

\* The weekday (0 = Monday) of the session at a day offset.
WeekdayOf(offset) ==
    (PatternIndices(inp.hd_pattern)[inp.start_option] + offset) % 7

\* C29: for each pattern and each start weekday of the pattern the six
\* session offsets start at 0 and grow by 2 or 3 days, every session is on
\* a weekday of the pattern, and the following session is 14 days after
\* the first.
C29_ScheduleFollowsPattern ==
    Scheduled06 =>
        \A offsets \in {loc.hd_days_offset} :
            /\ Len(offsets) = DOSE_SLOTS
            /\ offsets[1] = 0
            /\ \A k \in 1..(DOSE_SLOTS - 1) :
                   offsets[k + 1] - offsets[k] \in {2, 3}
            /\ \A k \in 1..DOSE_SLOTS :
                   /\ \E d \in 1..3 :
                          PatternIndices(inp.hd_pattern)[d] = WeekdayOf(offsets[k])
                   /\ loc.hd_times[k] = HdStart(offsets[k])
            /\ Len(loc.hd_times) = DOSE_SLOTS + 1
            /\ loc.hd_times[DOSE_SLOTS + 1] = HdStart(14)

\* A schedule from the last weekday of its pattern: the first gap wraps
\* around the week.
C29_Witness ==
    /\ Scheduled06
    /\ inp.start_option = 3
    /\ loc.hd_days_offset = <<0, 3, 5, 7, 10, 12>>

-----------------------------------------------------------------------------
(* Claims about the reset of run_sim to a measured concentration *)

\* The pass of the main loop that finds its index in start_adjust.
ResetPass ==
    /\ pc = "run_sim"
    /\ inp.page = "06"
    /\ inp.start_adjust.given
    /\ i = inp.start_adjust.idx
    /\ i < inp.total_minutes

\* What the pass at idx leaves: the sample at idx within tolerance of conc,
\* A1 = conc * V1, A2 scaled by conc / pre-reset concentration when that is
\* positive, and the samples before idx those of the run without
\* start_adjust.
ResetEffect(tolerance) ==
    /\ Abs(conc_v1'[i + 1] - inp.start_adjust.conc) <= tolerance
    /\ loc'.A1_in = MulDiv(inp.start_adjust.conc, sim.V1, 100)
    /\ \A current_conc \in {Conc(A1, sim.V1)} :
           current_conc > 0 =>
               loc'.A2_in = MulDiv(A2, inp.start_adjust.conc, current_conc)
    /\ \A t \in 0..(i - 1) :
           conc_v1'[t + 1] = Conc(RunSimAmounts(sim, t)[1], sim.V1)

====
